---- MODULE Spec2Model ----
(***************************************************************************)
(* Model of the RAG chatbot backend (src/backend): the POST /v1/query      *)
(* handler with its lazily initialised service singletons, the             *)
(* RAGService.process_query pipeline, the persistence retry decorator and  *)
(* PostgresService.save_query, and the GET /v1/health aggregation.         *)
(*                                                                         *)
(* One operation runs at a time: `op` names it and `pc` is its position.   *)
(* Lengths stand for strings, exception class names for exceptions,        *)
(* similarity scores and confidence are in thousandths, delays in tenths   *)
(* of a second.                                                            *)
(***************************************************************************)
EXTENDS Integers, Sequences, FiniteSets, TLC

\* ---------------------------------------------------------------- bounds
MaxRetries == 2
MaxChunks == 2

\* ------------------------------------------------------------- constants
MIN_QUERY_LENGTH == 5
MAX_QUERY_LENGTH == 2000
MAX_CONTEXT_LENGTH == 4000
MIN_CONFIDENCE_SCORE == 300
SESSION_ID_MIN == 10
SESSION_ID_MAX == 50
SCHEMA_SESSION_MIN == 5
SAVE_MAX_RETRIES == 3
SAVE_INITIAL_DELAY == 1
SAVE_BACKOFF_FACTOR == 2
RESPONSE_NORM_LEN == 200
FALLBACK_RESPONSE_LEN == 61
NOT_FOUND_RESPONSE_LEN == 81

None == "None"

\* ------------------------------------------------------------ input sets
\* question: raw length and length after strip()
Questions ==
    { [raw |-> 4, stripped |-> 4], [raw |-> 8, stripped |-> 2],
      [raw |-> 12, stripped |-> 12], [raw |-> 2001, stripped |-> 2001] }
\* session id: length of the body, whether every body character is in
\* [a-zA-Z0-9\-_], and whether a newline follows the body
Sessions ==
    { [len |-> 4, chars |-> TRUE, nl |-> FALSE],
      [len |-> 8, chars |-> TRUE, nl |-> FALSE],
      [len |-> 12, chars |-> TRUE, nl |-> FALSE],
      [len |-> 12, chars |-> FALSE, nl |-> FALSE],
      [len |-> 12, chars |-> TRUE, nl |-> TRUE],
      [len |-> 51, chars |-> TRUE, nl |-> FALSE] }
\* selected context: None or its length
Contexts == { -1, 0, 100, 4001 }
NoContext == -1
Requests == [question : Questions, session_id : Sessions, selected_context : Contexts]
NoRequest == [question |-> [raw |-> 0, stripped |-> 0],
              session_id |-> [len |-> 0, chars |-> TRUE, nl |-> FALSE],
              selected_context |-> NoContext]

Similarities == { 500, 900 }
ResponseLens == { 0, 100, 300 }
Delays == { 1, 2 }
Factors == { 1, 2 }

\* --------------------------------------------------------- exception model
\* app/utils/exceptions.py and app/utils/validators.py class hierarchy
Bases(exc) ==
    CASE exc = "QdrantUnavailableError" -> {"QdrantUnavailableError", "ChatbotException", "Exception"}
      [] exc = "GeminiAPIError" -> {"GeminiAPIError", "ChatbotException", "Exception"}
      [] exc = "DatabaseError" -> {"DatabaseError", "ChatbotException", "Exception"}
      [] exc = "exceptions.ValidationError" -> {"exceptions.ValidationError", "ChatbotException", "Exception"}
      [] exc = "validators.ValidationError" -> {"validators.ValidationError", "Exception"}
      [] exc = "SQLAlchemyError" -> {"SQLAlchemyError", "Exception"}
      [] exc = "HTTPException" -> {"HTTPException", "Exception"}
      [] OTHER -> {exc, "Exception"}

IsInstance(exc, cls) == cls \in Bases(exc)

\* ------------------------------------------------------------- validators
ValidateQueryLengthFails(q) ==
    q.stripped < MIN_QUERY_LENGTH \/ q.stripped > MAX_QUERY_LENGTH

\* re.match(r"^[a-zA-Z0-9\-_]{10,50}$", s): `$` also matches before a final newline
ValidateSessionIdFails(s) ==
    ~(s.chars /\ s.len >= SESSION_ID_MIN /\ s.len <= SESSION_ID_MAX)

ValidateSelectedContextFails(c) ==
    c # NoContext /\ c # 0 /\ c > MAX_CONTEXT_LENGTH

\* validate_query_input: the exception it raises, or None
ValidateQueryInput(r) ==
    IF \/ ValidateQueryLengthFails(r.question)
       \/ ValidateSessionIdFails(r.session_id)
       \/ ValidateSelectedContextFails(r.selected_context)
    THEN "validators.ValidationError" ELSE None

\* ChatQueryRequest: field constraints, then the field validators
SchemaAccepts(r) ==
    /\ r.question.raw >= MIN_QUERY_LENGTH
    /\ r.question.raw <= MAX_QUERY_LENGTH
    /\ r.question.stripped > 0
    /\ r.session_id.len + (IF r.session_id.nl THEN 1 ELSE 0) >= SCHEMA_SESSION_MIN
    /\ (r.selected_context = NoContext \/ r.selected_context <= MAX_CONTEXT_LENGTH)

\* the validated model the handler sees: question replaced by v.strip()
SchemaParse(r) ==
    [r EXCEPT !.question = [raw |-> r.question.stripped, stripped |-> r.question.stripped]]


\* ------------------------------------------------------------------ state
VARIABLES
    qdrant_service,     \* module global of api/v1/query.py
    gemini_service,     \* module global of api/v1/query.py
    op,                 \* the operation in progress
    pc,                 \* its position; "done" when it has ended
    req,                \* the request / the arguments of process_query
    calls,              \* calls to external systems made by this operation
    stages,             \* pipeline stages process_query has entered
    inflight,           \* awaited stage coroutines that have not returned
    retrieved_chunks,   \* similarity scores of the retrieved chunks
    result,             \* outcome of process_query
    status,             \* HTTP status of the response, 0 before it is sent
    caught,             \* exception the operation's except clauses received first
    retry,              \* frame of retry_on_connection_error's wrapper
    health              \* locals of health_check

\* the admin log endpoints and the chat_queries table (SpecLogs)
VARIABLES
    admin_token,        \* os.getenv("ADMIN_TOKEN")
    table,              \* rows of chat_queries, in insertion order
    clock,              \* datetime.utcnow(), in days
    logs_req,           \* the /v1/logs* request in progress
    svc_out             \* what the last PostgresService call gave back

\* two failing POST /v1/query requests compared (SpecPair)
VARIABLES
    pair                \* per request: failing call, provider text, message, response

\* concurrent POST /v1/query requests on one event loop (SpecRace)
VARIABLES
    procs,              \* per request task: position, leased session, outcome
    sessions,           \* every AsyncSession get_session has made
    built               \* constructor and init() calls made by init_services

\* _calculate_confidence_score applied to given arguments (SpecScore)
VARIABLES
    score               \* the arguments, and the value returned

\* the process-wide MetricsCollector (SpecMetrics)
VARIABLES
    collector,          \* _counters, _gauges, _histograms, _summaries
    met_out,            \* what the last call on the collector returned
    quiet,              \* reset_metrics was called and nothing recorded since
    recorded            \* recording calls made so far

\* one HTTP request passing the middleware stack (SpecHttp)
VARIABLES
    http                \* the request, request.state, the log records, the response

\* concurrent calls of the decorated RAGService.process_query (SpecInstr)
VARIABLES
    runs                \* per calling task: position in the wrappers and the body

\* one run of scripts/load_test.py (SpecCli)
VARIABLES
    cli                 \* the arguments, the progress of the run, the exit status

\* runs of scripts/migrate_postgres.py and scripts/seed_analytics_data.py (SpecScripts)
VARIABLES
    script              \* the script run in progress or ended, and the database

\* PostgresService.get_analytics applied to a given table (SpecAnalytics)
VARIABLES
    analytics           \* the rows, the arguments, and the dictionary returned

core_rest == <<op, pc, req, calls, stages, inflight,
               retrieved_chunks, result, status, caught, retry, health>>
core == <<qdrant_service, gemini_service, core_rest>>
race_vars == <<procs, sessions, built>>
logs_vars == <<admin_token, table, clock, logs_req, svc_out>>
metrics_vars == <<collector, met_out, quiet, recorded>>
ext == <<logs_vars, pair, race_vars, score, metrics_vars, http, runs, cli, script, analytics>>
\* what the actions of one group leave alone
not_logs == <<core, pair, race_vars, score, metrics_vars, http, runs, cli, script, analytics>>
not_pair == <<core, logs_vars, race_vars, score, metrics_vars, http, runs, cli, script, analytics>>
not_race == <<core_rest, logs_vars, pair, score, metrics_vars, http, runs, cli, script, analytics>>
not_score == <<core, logs_vars, pair, race_vars, metrics_vars, http, runs, cli, script, analytics>>
not_metrics == <<core, logs_vars, pair, race_vars, score, http, runs, cli, script, analytics>>
not_http == <<core, logs_vars, pair, race_vars, score, metrics_vars, runs, cli, script, analytics>>
not_instr == <<core, logs_vars, pair, race_vars, score, quiet, recorded, http, cli, script, analytics>>
not_cli == <<core, logs_vars, pair, race_vars, score, metrics_vars, http, runs, script, analytics>>
not_scripts == <<core, logs_vars, pair, race_vars, score, metrics_vars, http, runs, cli, analytics>>
not_analytics == <<core, logs_vars, pair, race_vars, score, metrics_vars, http, runs, cli, script>>
vars == <<core, ext>>

NoResult == [kind |-> "none", exc |-> None, response_text |-> "none",
             response_len |-> 0, source_references |-> 0, confidence_score |-> 0]
NoRetry == [pc |-> "idle", func |-> None, max_retries |-> 0, initial_delay |-> 0,
            backoff_factor |-> 0, attempt |-> 0, delay |-> 0,
            last_exception |-> None, outcomes |-> <<>>, sleeps |-> <<>>,
            result |-> [kind |-> "none", exc |-> None]]
NoHealth == [qdrant_healthy |-> FALSE, gemini_healthy |-> FALSE,
             postgres_healthy |-> FALSE, checked |-> 0, status |-> "none"]

NoLogsReq == [endpoint |-> "none", header |-> None, args |-> None, pc |-> "done",
              status |-> 0, detail |-> "none", reads |-> 0, at |-> 0, total |-> 0,
              items |-> <<>>]
NoSvcOut == [fn |-> "none", args |-> None, raised |-> None, at |-> 0, total |-> 0,
             items |-> <<>>]

\* no log request in progress, empty table
IdleLogs ==
    /\ admin_token = None
    /\ table = <<>>
    /\ clock = 0
    /\ logs_req = NoLogsReq
    /\ svc_out = NoSvcOut

\* no pair of requests under comparison
IdlePair == pair = <<>>

NoBuilt == [qdrant |-> 0, qdrant_init |-> 0, gemini |-> 0, gemini_init |-> 0]

\* no request task, no session
IdleRace ==
    /\ procs = <<>>
    /\ sessions = <<>>
    /\ built = NoBuilt

\* no call of _calculate_confidence_score
IdleScore == score = <<>>

\* MetricsCollector(): four empty maps
EmptyMap == <<>>
NewCollector == [counters |-> EmptyMap, gauges |-> EmptyMap, histograms |-> EmptyMap,
                 summaries |-> EmptyMap]
NoMetOut == [fn |-> "none", key |-> <<>>, raised |-> FALSE, value |-> <<>>]
IdleMetrics ==
    /\ collector = NewCollector
    /\ met_out = NoMetOut
    /\ quiet = FALSE
    /\ recorded = 0

\* no HTTP request in the middleware stack
NoHttp == [pc |-> "sent", pos |-> 0, inbound |-> None, preflight |-> FALSE,
           uuids |-> 0, state_cid |-> None, id_cid |-> None,
           log_received |-> None, log_completed |-> None,
           status |-> 0, header |-> None]
IdleHttp == http = NoHttp

\* no call of process_query
IdleInstr == runs = <<>>

\* load_test.py not started
NoCli == [pc |-> "none", users |-> 0, duration |-> 0, completed |-> 0, failed |-> 0,
          printed |-> "none", interrupted |-> FALSE, exit |-> -1]
IdleCli == cli = NoCli

\* no script started, empty database
NoScript == [name |-> "none", url |-> None, pc |-> "none", step |-> 0, logged |-> "none",
             exit |-> -1, starts |-> 0, has_table |-> FALSE, indexes |-> 0, rows |-> 0]
IdleScripts == script = NoScript

\* no call of get_analytics
IdleAnalytics == analytics = <<>>

\* every group of variables but g at rest
Idle(g) ==
    /\ g = "logs" \/ IdleLogs
    /\ g = "pair" \/ IdlePair
    /\ g = "race" \/ IdleRace
    /\ g = "score" \/ IdleScore
    /\ g = "metrics" \/ IdleMetrics
    /\ g = "http" \/ IdleHttp
    /\ g = "instr" \/ IdleInstr
    /\ g = "cli" \/ IdleCli
    /\ g = "scripts" \/ IdleScripts
    /\ g = "analytics" \/ IdleAnalytics

\* module load: both singletons None; the lifespan hook runs init_services first
CoreInit ==
    /\ qdrant_service = None
    /\ gemini_service = None
    /\ op = "boot"
    /\ pc = "init_qdrant"
    /\ req = NoRequest
    /\ calls = <<>>
    /\ stages = <<>>
    /\ inflight = {}
    /\ retrieved_chunks = <<>>
    /\ result = NoResult
    /\ status = 0
    /\ caught = None
    /\ retry = NoRetry
    /\ health = NoHealth

Init == CoreInit /\ Idle("core")

\* what every operation starts from
Fresh ==
    /\ calls' = <<>>
    /\ stages' = <<>>
    /\ inflight' = {}
    /\ retrieved_chunks' = <<>>
    /\ result' = NoResult
    /\ caught' = None
    /\ retry' = NoRetry
    /\ health' = NoHealth

\* ------------------------------------------------- POST /v1/query handler
\* outer try of query_chatbot: `except HTTPException: raise`, else 500
OuterExcept(exc, status_code) ==
    IF IsInstance(exc, "HTTPException") THEN status_code ELSE 500

\* `except ValidationError` around validate_query_input; ValidationError is the
\* class imported from app.utils.exceptions
ValidationExcept(exc) ==
    IF IsInstance(exc, "exceptions.ValidationError")
    THEN OuterExcept("HTTPException", 400)
    ELSE OuterExcept(exc, 0)

\* the 503 and 502 translations exchanged
AfterPipelineMut(res) ==
    IF res.kind = "return" THEN 200
    ELSE IF IsInstance(res.exc, "QdrantUnavailableError") THEN OuterExcept("HTTPException", 502)
    ELSE IF IsInstance(res.exc, "GeminiAPIError") THEN OuterExcept("HTTPException", 503)
    ELSE IF IsInstance(res.exc, "DatabaseError") THEN OuterExcept("UnboundLocalError", 0)
    ELSE OuterExcept(res.exc, 0)

\* the except clauses around rag_service.process_query, then the rest of the
\* handler; rag_result is bound only if process_query returned
AfterPipeline(res) ==
    IF res.kind = "return" THEN 200
    ELSE IF IsInstance(res.exc, "QdrantUnavailableError") THEN OuterExcept("HTTPException", 503)
    ELSE IF IsInstance(res.exc, "GeminiAPIError") THEN OuterExcept("HTTPException", 502)
    ELSE IF IsInstance(res.exc, "DatabaseError") THEN OuterExcept("UnboundLocalError", 0)
    ELSE OuterExcept(res.exc, 0)

\* a request arrives; FastAPI answers 422 itself when the body fails the schema
QueryReceived(r) ==
    /\ pc = "done"
    /\ Fresh
    /\ op' = "query"
    /\ IF SchemaAccepts(r)
       THEN /\ req' = SchemaParse(r)
            /\ pc' = "init_qdrant"
            /\ status' = 0
       ELSE /\ req' = r
            /\ pc' = "done"
            /\ status' = 422
    /\ UNCHANGED <<qdrant_service, gemini_service>>
    /\ UNCHANGED ext


\* init_services, first half.  The global is assigned before init() runs, so
\* it stays assigned when init() raises.  QdrantService.init builds the client
\* and then lists the collections; either step can fail.
InitQdrant ==
    /\ pc = "init_qdrant"
    /\ op \in {"boot", "query"}
    /\ \/ /\ qdrant_service # None
          /\ pc' = "init_gemini"
          /\ UNCHANGED <<qdrant_service, calls, op, status, caught>>
       \/ /\ qdrant_service = None
          /\ qdrant_service' = "Ready"
          /\ calls' = Append(calls, "qdrant.get_collections")
          /\ pc' = "init_gemini"
          /\ UNCHANGED <<op, status, caught>>
       \/ /\ qdrant_service = None
          /\ \/ /\ qdrant_service' = "NoClient"
                /\ UNCHANGED calls
             \/ /\ qdrant_service' = "Unverified"
                /\ calls' = Append(calls, "qdrant.get_collections")
          \* QdrantUnavailableError leaves init_services: the lifespan hook
          \* logs it, the handler's outer except turns it into a 500
          /\ pc' = "done"
          /\ caught' = "QdrantUnavailableError"
          /\ status' = IF op = "query" THEN OuterExcept("QdrantUnavailableError", 0) ELSE 0
          /\ UNCHANGED op
    /\ UNCHANGED <<gemini_service, req, stages, inflight, retrieved_chunks, result, retry, health>>
    /\ UNCHANGED ext

\* init_services, second half: GeminiService() then init(), which lists the models
InitGemini ==
    /\ pc = "init_gemini"
    /\ op \in {"boot", "query"}
    /\ \/ /\ gemini_service # None
          /\ pc' = IF op = "query" THEN "validate" ELSE "done"
          /\ UNCHANGED <<gemini_service, calls, status, caught>>
       \/ /\ gemini_service = None
          /\ gemini_service' = "Ready"
          /\ calls' = Append(calls, "gemini.list_models")
          /\ pc' = IF op = "query" THEN "validate" ELSE "done"
          /\ UNCHANGED <<status, caught>>
       \/ /\ gemini_service = None
          /\ gemini_service' = "Unverified"
          /\ calls' = Append(calls, "gemini.list_models")
          /\ pc' = "done"
          /\ caught' = "GeminiAPIError"
          /\ status' = IF op = "query" THEN OuterExcept("GeminiAPIError", 0) ELSE 0
    /\ UNCHANGED <<qdrant_service, op, req, stages, inflight, retrieved_chunks, result, retry, health>>
    /\ UNCHANGED ext

\* "Stage 1: Input Validation" of the handler
HandlerValidate ==
    /\ pc = "validate"
    /\ op = "query"
    /\ LET e == ValidateQueryInput(req) IN
         IF e = None
         THEN /\ pc' = "pq_validate"
              /\ UNCHANGED <<status, caught>>
         ELSE /\ pc' = "done"
              /\ caught' = e
              /\ status' = ValidationExcept(e)
    /\ UNCHANGED <<qdrant_service, gemini_service, op, req, calls, stages, inflight,
                   retrieved_chunks, result, retry, health>>
    /\ UNCHANGED ext

\* process_query has ended: the handler's except clauses and the response
HandlerRespond ==
    /\ pc = "pq_done"
    /\ op = "query"
    /\ pc' = "done"
    /\ caught' = result.exc
    /\ status' = AfterPipeline(result)
    /\ UNCHANGED <<qdrant_service, gemini_service, op, req, calls, stages, inflight,
                   retrieved_chunks, result, retry, health>>
    /\ UNCHANGED ext


\* ------------------------------------------------ RAGService.process_query
RECURSIVE SumSeq(_)
SumSeq(sq) == IF sq = <<>> THEN 0 ELSE Head(sq) + SumSeq(Tail(sq))

Min(a, b) == IF a < b THEN a ELSE b
Max(a, b) == IF a > b THEN a ELSE b

\* the emptiness test dropped: every search result is treated as non-empty
EmptyResultMut(chunks) == FALSE

\* `if not retrieved_chunks`
EmptyResult(chunks) == Len(chunks) = 0

\* _extract_source_references: one reference per chunk, in chunk order
ExtractSourceReferences(chunks) == Len(chunks)

\* exact fractions, kept in lowest terms
RECURSIVE GCD(_, _)
GCD(a, b) == IF b = 0 THEN a ELSE GCD(b, a % b)
Frac(n, d) == LET g == GCD(n, d) IN [num |-> n \div g, den |-> d \div g]
FLe(a, b) == a.num * b.den <= b.num * a.den
FAdd(a, b) == Frac(a.num * b.den + b.num * a.den, a.den * b.den)
FMul(a, b) == Frac(a.num * b.num, a.den * b.den)
FMin(a, b) == IF FLe(a, b) THEN a ELSE b
FMax(a, b) == IF FLe(b, a) THEN a ELSE b

\* the last line of the computation, with the clamp left out
ClampConfidenceMut(confidence) == confidence
\* max(MIN_CONFIDENCE_SCORE, min(confidence, 1.0))
ClampConfidence(confidence) ==
    FMax(Frac(MIN_CONFIDENCE_SCORE, 1000), FMin(confidence, Frac(1, 1)))

\* _calculate_confidence_score as a fraction; similarity scores come in
\* thousandths, the response as its length
ConfidenceFraction(chunks, response_len) ==
    IF Len(chunks) = 0 THEN Frac(0, 1)
    ELSE LET avg_similarity == Frac(SumSeq(chunks), 1000 * Len(chunks))
             response_factor == FMin(Frac(response_len, RESPONSE_NORM_LEN), Frac(1, 1))
             confidence == FAdd(FMul(avg_similarity, Frac(7, 10)),
                                FMul(response_factor, Frac(3, 10)))
         IN ClampConfidence(confidence)

\* _calculate_confidence_score, in thousandths (rounded down)
CalculateConfidenceScore(chunks, response_len) ==
    LET c == ConfidenceFraction(chunks, response_len) IN (c.num * 1000) \div c.den

\* the fixed answer of the no-chunk branch
NotFoundResult ==
    [kind |-> "return", exc |-> None, response_text |-> "couldn't find relevant information",
     response_len |-> NOT_FOUND_RESPONSE_LEN, source_references |-> 0, confidence_score |-> 0]

Raised(e) == [NoResult EXCEPT !.kind = "raise", !.exc = e]

ChunkLists == UNION { [1..n -> Similarities] : n \in 0..MaxChunks }

\* a direct call of process_query on a RAGService built from the two services
StartProcessQuery(r) ==
    /\ pc = "done"
    /\ qdrant_service # None
    /\ gemini_service # None
    /\ Fresh
    /\ status' = 0
    /\ op' = "process_query"
    /\ pc' = "pq_validate"
    /\ req' = r
    /\ UNCHANGED <<qdrant_service, gemini_service>>
    /\ UNCHANGED ext

\* Stage 1: validate_query_input
PqValidate ==
    /\ pc = "pq_validate"
    /\ stages' = Append(stages, "validate")
    /\ LET e == ValidateQueryInput(req) IN
         IF e = None
         THEN /\ pc' = "pq_embed"
              /\ UNCHANGED result
         ELSE /\ pc' = "pq_done"
              /\ result' = Raised(e)
    /\ UNCHANGED <<qdrant_service, gemini_service, op, req, calls, inflight,
                   retrieved_chunks, status, caught, retry, health>>
    /\ UNCHANGED ext

\* Stage 2: await self.gemini.generate_embedding(question)
EmbedCall ==
    /\ pc = "pq_embed"
    /\ stages' = Append(stages, "generate_embedding")
    /\ inflight' = inflight \cup {"generate_embedding"}
    /\ calls' = Append(calls, "gemini.embed_content")
    /\ pc' = "pq_embed_wait"
    /\ UNCHANGED <<qdrant_service, gemini_service, op, req, retrieved_chunks, result,
                   status, caught, retry, health>>
    /\ UNCHANGED ext

EmbedReturn ==
    /\ pc = "pq_embed_wait"
    /\ inflight' = inflight \ {"generate_embedding"}
    /\ \/ /\ pc' = "pq_search"
          /\ UNCHANGED result
       \/ /\ pc' = "pq_done"
          /\ result' = Raised("GeminiAPIError")
    /\ UNCHANGED <<qdrant_service, gemini_service, op, req, calls, stages,
                   retrieved_chunks, status, caught, retry, health>>
    /\ UNCHANGED ext

\* await self.qdrant.search_similar_chunks(...): no request is sent when the
\* service has no client
SearchCall ==
    /\ pc = "pq_search"
    /\ stages' = Append(stages, "search_similar_chunks")
    /\ inflight' = inflight \cup {"search_similar_chunks"}
    /\ calls' = IF qdrant_service = "NoClient" THEN calls ELSE Append(calls, "qdrant.search")
    /\ pc' = "pq_search_wait"
    /\ UNCHANGED <<qdrant_service, gemini_service, op, req, retrieved_chunks, result,
                   status, caught, retry, health>>
    /\ UNCHANGED ext

\* the search returns its chunks or raises; an empty list ends the pipeline
SearchReturn ==
    /\ pc = "pq_search_wait"
    /\ inflight' = inflight \ {"search_similar_chunks"}
    /\ \/ /\ pc' = "pq_done"
          /\ result' = Raised("QdrantUnavailableError")
          /\ UNCHANGED retrieved_chunks
       \/ /\ qdrant_service # "NoClient"
          /\ \E chunks \in ChunkLists :
               /\ retrieved_chunks' = chunks
               /\ IF EmptyResult(chunks)
                  THEN /\ pc' = "pq_done"
                       /\ result' = NotFoundResult
                  ELSE /\ pc' = "pq_prompt"
                       /\ UNCHANGED result
    /\ UNCHANGED <<qdrant_service, gemini_service, op, req, calls, stages, status, caught,
                   retry, health>>
    /\ UNCHANGED ext

\* Stage 3: _build_augmented_prompt
BuildPrompt ==
    /\ pc = "pq_prompt"
    /\ stages' = Append(stages, "build_prompt")
    /\ pc' = "pq_generate"
    /\ UNCHANGED <<qdrant_service, gemini_service, op, req, calls, inflight,
                   retrieved_chunks, result, status, caught, retry, health>>
    /\ UNCHANGED ext

\* Stage 4: await self.gemini.generate_response_for_query(...)
GenerateCall ==
    /\ pc = "pq_generate"
    /\ stages' = Append(stages, "generate_response_for_query")
    /\ inflight' = inflight \cup {"generate_response_for_query"}
    /\ calls' = Append(calls, "gemini.generate_content")
    /\ pc' = "pq_generate_wait"
    /\ UNCHANGED <<qdrant_service, gemini_service, op, req, retrieved_chunks, result,
                   status, caught, retry, health>>
    /\ UNCHANGED ext

\* the provider's text, the fixed fallback when it is empty, or GeminiAPIError
GenerateReturn ==
    /\ pc = "pq_generate_wait"
    /\ inflight' = inflight \ {"generate_response_for_query"}
    /\ \/ /\ pc' = "pq_done"
          /\ result' = Raised("GeminiAPIError")
       \/ /\ \E n \in ResponseLens :
               result' = IF n > 0
                         THEN [result EXCEPT !.response_text = "generated", !.response_len = n]
                         ELSE [result EXCEPT !.response_text = "fallback",
                                             !.response_len = FALLBACK_RESPONSE_LEN]
          /\ pc' = "pq_attribute"
    /\ UNCHANGED <<qdrant_service, gemini_service, op, req, calls, stages,
                   retrieved_chunks, status, caught, retry, health>>
    /\ UNCHANGED ext

\* Stage 5: source attribution and scoring
AttributeScore ==
    /\ pc = "pq_attribute"
    /\ stages' = Append(stages, "attribute_score")
    /\ result' = [result EXCEPT
                    !.source_references = ExtractSourceReferences(retrieved_chunks),
                    !.confidence_score = CalculateConfidenceScore(retrieved_chunks, result.response_len)]
    /\ pc' = "pq_log"
    /\ UNCHANGED <<qdrant_service, gemini_service, op, req, calls, inflight,
                   retrieved_chunks, status, caught, retry, health>>
    /\ UNCHANGED ext

\* Stage 6: the completion log; its retrieval summary divides by the chunk count
LogCompletion ==
    /\ pc = "pq_log"
    /\ IF Len(retrieved_chunks) = 0
       THEN /\ pc' = "pq_done"
            /\ result' = Raised("ZeroDivisionError")
       ELSE /\ pc' = "pq_save"
            /\ UNCHANGED result
    /\ UNCHANGED <<qdrant_service, gemini_service, op, req, calls, stages, inflight,
                   retrieved_chunks, status, caught, retry, health>>
    /\ UNCHANGED ext


\* ------------------------------------- retry_on_connection_error, save_query
DbOutcomes == {"ok", "SQLAlchemyError", "Exception"}

\* body of PostgresService.save_query for one outcome of the insert/commit:
\* the database calls it makes and the exception it ends with
SaveQueryBody(db) ==
    CASE db = "ok" -> [exc |-> None, calls |-> <<"db.commit", "db.refresh">>]
      [] db = "SQLAlchemyError" -> [exc |-> "DatabaseError", calls |-> <<"db.commit", "db.rollback">>]
      [] OTHER -> [exc |-> db, calls |-> <<"db.commit">>]

\* a wrapped coroutine that raises what it is told to, as the decorator's tests use
TestFunctionBody(o) ==
    [exc |-> IF o = "ok" THEN None ELSE o, calls |-> <<>>]

FuncBody(func, o) ==
    IF func = "save_query" THEN SaveQueryBody(o) ELSE TestFunctionBody(o)

\* the last attempt recognised one iteration early
IsLastAttemptMut(attempt, max_retries) == attempt >= max_retries - 1

\* `if attempt == max_retries`
IsLastAttempt(attempt, max_retries) == attempt = max_retries

\* `delay *= backoff_factor`
NextDelay(delay, backoff_factor) == delay * backoff_factor

\* entry of wrapper(): last_exception = None, delay = initial_delay, attempt 0
NewRetry(func, max_retries, initial_delay, backoff_factor) ==
    [NoRetry EXCEPT !.pc = "call", !.func = func, !.max_retries = max_retries,
                    !.initial_delay = initial_delay, !.backoff_factor = backoff_factor,
                    !.delay = initial_delay]

\* a decorated test coroutine is called
StartRetry(m, d, b) ==
    /\ pc = "done"
    /\ calls' = <<>>
    /\ stages' = <<>>
    /\ inflight' = {}
    /\ retrieved_chunks' = <<>>
    /\ result' = NoResult
    /\ caught' = None
    /\ health' = NoHealth
    /\ retry' = NewRetry("test_function", m, d, b)
    /\ status' = 0
    /\ op' = "retry"
    /\ pc' = "retry_wait"
    /\ req' = NoRequest
    /\ UNCHANGED <<qdrant_service, gemini_service>>
    /\ UNCHANGED ext

\* one pass of the for loop up to the sleep: await func(), then the except clause
RetryAttempt ==
    /\ retry.pc = "call"
    /\ \E o \in DbOutcomes :
         LET body == FuncBody(retry.func, o)
             seen == [retry EXCEPT !.outcomes = Append(@, body.exc)]
         IN /\ calls' = calls \o body.calls
            /\ retry' =
                 IF body.exc = None
                 THEN [seen EXCEPT !.pc = "done", !.result = [kind |-> "return", exc |-> None]]
                 ELSE IF IsInstance(body.exc, "SQLAlchemyError")
                 THEN IF IsLastAttempt(retry.attempt, retry.max_retries)
                      THEN [seen EXCEPT !.pc = "done", !.last_exception = body.exc,
                                        !.result = [kind |-> "raise", exc |-> body.exc]]
                      ELSE [seen EXCEPT !.pc = "sleep", !.last_exception = body.exc]
                 ELSE [seen EXCEPT !.pc = "done", !.result = [kind |-> "raise", exc |-> body.exc]]
    /\ UNCHANGED <<qdrant_service, gemini_service, op, pc, req, stages, inflight,
                   retrieved_chunks, result, status, caught, health>>
    /\ UNCHANGED ext

\* await asyncio.sleep(delay); delay *= backoff_factor; next loop iteration, or
\* `raise last_exception` when range(max_retries + 1) is exhausted
RetrySleep ==
    /\ retry.pc = "sleep"
    /\ LET slept == [retry EXCEPT !.sleeps = Append(@, retry.delay),
                                  !.delay = NextDelay(retry.delay, retry.backoff_factor),
                                  !.attempt = @ + 1]
       IN retry' = IF retry.attempt + 1 <= retry.max_retries
                   THEN [slept EXCEPT !.pc = "call"]
                   ELSE [slept EXCEPT !.pc = "done",
                                      !.result = [kind |-> "raise", exc |-> retry.last_exception]]
    /\ UNCHANGED <<qdrant_service, gemini_service, op, pc, req, calls, stages, inflight,
                   retrieved_chunks, result, status, caught, health>>
    /\ UNCHANGED ext

RetryFinish ==
    /\ pc = "retry_wait"
    /\ retry.pc = "done"
    /\ pc' = "done"
    /\ UNCHANGED <<qdrant_service, gemini_service, op, req, calls, stages, inflight,
                   retrieved_chunks, result, status, caught, retry, health>>
    /\ UNCHANGED ext

\* save_query also started, as from a `finally:`, when the pipeline has raised
SaveCallFinallyMut ==
    /\ pc = "pq_save" \/ (pc = "pq_done" /\ result.kind = "raise" /\ retry = NoRetry)
    /\ stages' = Append(stages, "save_query")
    /\ inflight' = inflight \cup {"save_query"}
    /\ retry' = NewRetry("save_query", SAVE_MAX_RETRIES, SAVE_INITIAL_DELAY, SAVE_BACKOFF_FACTOR)
    /\ pc' = "pq_save_wait"
    /\ UNCHANGED <<qdrant_service, gemini_service, op, req, calls, retrieved_chunks,
                   result, status, caught, health>>
    /\ UNCHANGED ext

\* save_query started as a background task: process_query returns without awaiting it
SaveCallMut ==
    /\ pc = "pq_save"
    /\ stages' = Append(stages, "save_query")
    /\ inflight' = inflight \cup {"save_query"}
    /\ retry' = NewRetry("save_query", SAVE_MAX_RETRIES, SAVE_INITIAL_DELAY, SAVE_BACKOFF_FACTOR)
    /\ result' = [result EXCEPT !.kind = "return"]
    /\ pc' = "pq_done"
    /\ UNCHANGED <<qdrant_service, gemini_service, op, req, calls, retrieved_chunks,
                   status, caught, health>>
    /\ UNCHANGED ext

\* "Stage 6: Async Logging": await self.postgres.save_query(...)
SaveCall ==
    /\ pc = "pq_save"
    /\ stages' = Append(stages, "save_query")
    /\ inflight' = inflight \cup {"save_query"}
    /\ retry' = NewRetry("save_query", SAVE_MAX_RETRIES, SAVE_INITIAL_DELAY, SAVE_BACKOFF_FACTOR)
    /\ pc' = "pq_save_wait"
    /\ UNCHANGED <<qdrant_service, gemini_service, op, req, calls, retrieved_chunks,
                   result, status, caught, health>>
    /\ UNCHANGED ext

\* a failure of save_query swallowed: the answer is returned all the same
SaveReturnMut ==
    /\ pc = "pq_save_wait"
    /\ retry.pc = "done"
    /\ inflight' = inflight \ {"save_query"}
    /\ result' = [result EXCEPT !.kind = "return"]
    /\ pc' = "pq_done"
    /\ UNCHANGED <<qdrant_service, gemini_service, op, req, calls, stages,
                   retrieved_chunks, status, caught, retry, health>>
    /\ UNCHANGED ext

\* save_query has returned or raised; process_query returns the answer or
\* lets the exception through
SaveReturn ==
    /\ pc = "pq_save_wait"
    /\ retry.pc = "done"
    /\ inflight' = inflight \ {"save_query"}
    /\ result' = IF retry.result.kind = "raise"
                 THEN Raised(retry.result.exc)
                 ELSE [result EXCEPT !.kind = "return"]
    /\ pc' = "pq_done"
    /\ UNCHANGED <<qdrant_service, gemini_service, op, req, calls, stages,
                   retrieved_chunks, status, caught, retry, health>>
    /\ UNCHANGED ext

\* the direct caller gets the outcome
ProcessQueryFinish ==
    /\ pc = "pq_done"
    /\ op = "process_query"
    /\ pc' = "done"
    /\ UNCHANGED <<qdrant_service, gemini_service, op, req, calls, stages, inflight,
                   retrieved_chunks, result, status, caught, retry, health>>
    /\ UNCHANGED ext

\* ---------------------------------------------------------- GET /v1/health
\* "Determine overall status" of health_check
HealthStatus(qdrant_healthy, gemini_healthy, postgres_healthy) ==
    LET all_healthy == qdrant_healthy /\ gemini_healthy /\ postgres_healthy
        some_degraded == ~(qdrant_healthy /\ gemini_healthy /\ postgres_healthy)
    IN IF all_healthy THEN "healthy"
       ELSE IF some_degraded THEN "degraded"
       ELSE "unhealthy"

HealthRequested ==
    /\ pc = "done"
    /\ Fresh
    /\ status' = 0
    /\ op' = "health"
    /\ pc' = "check_qdrant"
    /\ req' = NoRequest
    /\ UNCHANGED <<qdrant_service, gemini_service>>
    /\ UNCHANGED ext

\* check_qdrant_health: a fresh QdrantService, init() and close(); never raises
CheckQdrantHealth ==
    /\ pc = "check_qdrant"
    /\ \E ok \in BOOLEAN : health' = [health EXCEPT !.qdrant_healthy = ok, !.checked = 1]
    /\ calls' = Append(calls, "qdrant.get_collections")
    /\ pc' = "check_gemini"
    /\ UNCHANGED <<qdrant_service, gemini_service, op, req, stages, inflight,
                   retrieved_chunks, result, status, caught, retry>>
    /\ UNCHANGED ext

\* check_gemini_health: a fresh GeminiService, init() and close(); never raises
CheckGeminiHealth ==
    /\ pc = "check_gemini"
    /\ \E ok \in BOOLEAN : health' = [health EXCEPT !.gemini_healthy = ok, !.checked = 2]
    /\ calls' = Append(calls, "gemini.list_models")
    /\ pc' = "check_postgres"
    /\ UNCHANGED <<qdrant_service, gemini_service, op, req, stages, inflight,
                   retrieved_chunks, result, status, caught, retry>>
    /\ UNCHANGED ext

\* check_postgres_health reads the configuration only, then the handler
\* aggregates and answers 200
CheckPostgresHealth ==
    /\ pc = "check_postgres"
    /\ \E ok \in BOOLEAN :
         health' = [health EXCEPT !.postgres_healthy = ok, !.checked = 3,
                       !.status = HealthStatus(health.qdrant_healthy, health.gemini_healthy, ok)]
    /\ status' = 200
    /\ pc' = "done"
    /\ UNCHANGED <<qdrant_service, gemini_service, op, req, calls, stages, inflight,
                   retrieved_chunks, result, caught, retry>>
    /\ UNCHANGED ext

\* ------------------------------------------------------------ specification
Next ==
    \/ InitQdrant
    \/ InitGemini
    \/ \E r \in Requests : QueryReceived(r)
    \/ HandlerValidate
    \/ HandlerRespond
    \/ \E r \in Requests : StartProcessQuery(r)
    \/ PqValidate
    \/ EmbedCall
    \/ EmbedReturn
    \/ SearchCall
    \/ SearchReturn
    \/ BuildPrompt
    \/ GenerateCall
    \/ GenerateReturn
    \/ AttributeScore
    \/ LogCompletion
    \/ SaveCall
    \/ SaveReturn
    \/ ProcessQueryFinish
    \/ \E m \in 0..MaxRetries, d \in Delays, b \in Factors : StartRetry(m, d, b)
    \/ RetryAttempt
    \/ RetrySleep
    \/ RetryFinish
    \/ HealthRequested
    \/ CheckQdrantHealth
    \/ CheckGeminiHealth
    \/ CheckPostgresHealth

Spec == Init /\ [][Next]_vars


\* ======================================================= admin log endpoints
MaxRows == 2
MaxClock == 2

NoDays == -1
AdminTokens == {None, "", "secret"}
Headers == {None, "", "secret", "other"}
Endpoints == {"/logs", "/logs/aggregate", "/logs/metrics", "/logs/top-questions",
              "/logs/coverage"}
SessionIds == {"s1", "s2"}
SessionFilters == {None, "", "s1"}
Limits == {1, 2}
Offsets == 0..MaxRows
DaysBack == {NoDays, 1}
LogsArgs == [session_id : SessionFilters, limit : Limits, offset : Offsets,
             days_back : DaysBack]
DefaultArgs == [session_id |-> None, limit |-> 1, offset |-> 0, days_back |-> NoDays]
\* query strings of GET /v1/logs: the defaults, a second page, limit=0
ApiArgs == {DefaultArgs, [DefaultArgs EXCEPT !.offset = 1], [DefaultArgs EXCEPT !.limit = 0]}
DbResults == {"ok", "SQLAlchemyError"}

\* Python truth value of an Optional[str] and of an Optional[int]
TruthyStr(v) == v # None /\ v # ""
TruthyInt(v) == v # NoDays /\ v # 0

\* require_admin_token: TRUE when it returns True, FALSE when it raises the 401
RequireAdminToken(x_admin_token, expected_token) ==
    IF ~TruthyStr(expected_token) THEN TRUE
    ELSE IF ~TruthyStr(x_admin_token) \/ x_admin_token # expected_token THEN FALSE
    ELSE TRUE

\* Query(...) constraints of GET /v1/logs
LogsParamsValid(a) ==
    /\ a.limit >= 1 /\ a.limit <= 1000
    /\ a.offset >= 0
    /\ a.days_back = NoDays \/ (a.days_back >= 1 /\ a.days_back <= 365)

\* get_query_logs: the where clause built from `if session_id:` / `if days_back:`
Selected(rows, a, now) ==
    { i \in 1..Len(rows) :
        /\ TruthyStr(a.session_id) => rows[i].session_id = a.session_id
        /\ TruthyInt(a.days_back) => rows[i].timestamp >= now - a.days_back }

\* order_by(desc(timestamp)): every order the database may produce
DescOrders(rows, S) ==
    { sq \in [1..Cardinality(S) -> S] :
        /\ \A i, j \in 1..Cardinality(S) : i # j => sq[i] # sq[j]
        /\ \A i, j \in 1..Cardinality(S) :
              i < j => rows[sq[i]].timestamp >= rows[sq[j]].timestamp }

\* SQL OFFSET then LIMIT
RECURSIVE Drop(_, _)
Drop(sq, k) == IF k = 0 \/ sq = <<>> THEN sq ELSE Drop(Tail(sq), k - 1)
RECURSIVE Take(_, _)
Take(sq, k) == IF k = 0 \/ sq = <<>> THEN <<>> ELSE <<Head(sq)>> \o Take(Tail(sq), k - 1)
LimitOffset(sq, limit, offset) == Take(Drop(sq, offset), limit)

\* the ORM objects of the rows at the given table positions
RowsAt(rows, idx) == [i \in 1..Len(idx) |-> rows[idx[i]]]

\* session.add + commit of a new ChatQuery
NewRow(rows, session_id, now) ==
    [id |-> Len(rows) + 1, session_id |-> session_id, timestamp |-> now]

\* a GET /v1/logs* request arrives; Depends(get_session) yields a session, then
\* Depends(require_admin_token) runs
LogsReceived(e, h, a) ==
    /\ logs_req.pc = "done"
    /\ logs_req' = [NoLogsReq EXCEPT !.endpoint = e, !.header = h, !.args = a,
                                     !.pc = "require_admin_token"]
    /\ svc_out' = NoSvcOut
    /\ UNCHANGED <<admin_token, table, clock, not_logs>>

\* the dependency raises HTTPException(401) or lets the request through
AdminGate ==
    /\ logs_req.pc = "require_admin_token"
    /\ IF RequireAdminToken(logs_req.header, admin_token)
       THEN logs_req' = [logs_req EXCEPT !.pc = "endpoint"]
       ELSE logs_req' = [logs_req EXCEPT !.pc = "done", !.status = 401,
                                         !.detail = "Unauthorized: Invalid admin token"]
    /\ UNCHANGED <<admin_token, table, clock, svc_out, not_logs>>

\* GET /v1/logs: query parameters are validated, then the body calls
\* PostgresService.get_query_logs (count statement, then page statement)
LogsEndpoint ==
    /\ logs_req.pc = "endpoint"
    /\ logs_req.endpoint = "/logs"
    /\ IF ~LogsParamsValid(logs_req.args)
       THEN logs_req' = [logs_req EXCEPT !.pc = "done", !.status = 422,
                                         !.detail = "validation"]
       ELSE \/ \E order \in DescOrders(table, Selected(table, logs_req.args, clock)) :
                 logs_req' = [logs_req EXCEPT
                     !.pc = "done", !.status = 200, !.reads = 2, !.at = clock,
                     !.total = Cardinality(Selected(table, logs_req.args, clock)),
                     !.items = RowsAt(table, LimitOffset(order, logs_req.args.limit,
                                                         logs_req.args.offset))]
            \/ logs_req' = [logs_req EXCEPT
                     !.pc = "done", !.status = 500, !.reads = 1,
                     !.detail = "Failed to retrieve logs. Please try again."]
    /\ UNCHANGED <<admin_token, table, clock, svc_out, not_logs>>

\* the four analytics endpoints: one service read, answered or turned into a 500
AnalyticsEndpoint ==
    /\ logs_req.pc = "endpoint"
    /\ logs_req.endpoint # "/logs"
    /\ \E s \in {200, 500} :
          logs_req' = [logs_req EXCEPT !.pc = "done", !.status = s, !.reads = 1,
                                       !.detail = IF s = 500 THEN "Failed to retrieve"
                                                  ELSE "none"]
    /\ UNCHANGED <<admin_token, table, clock, svc_out, not_logs>>

\* what a failed save_query leaves in the table, the rollback undoing the add
AfterRollbackMut(rows) == IF rows = <<>> THEN rows ELSE SubSeq(rows, 1, Len(rows) - 1)
AfterRollback(rows) == rows

\* PostgresService.save_query: add, commit; SQLAlchemyError rolls back and
\* becomes DatabaseError
SaveQuery(s, db) ==
    /\ logs_req.pc = "done"
    /\ Len(table) < MaxRows
    /\ IF db = "ok"
       THEN /\ table' = Append(table, NewRow(table, s, clock))
            /\ svc_out' = [NoSvcOut EXCEPT !.fn = "save_query", !.total = Len(table) + 1]
       ELSE /\ table' = AfterRollback(table)
            /\ svc_out' = [NoSvcOut EXCEPT !.fn = "save_query", !.raised = "DatabaseError"]
    /\ logs_req' = NoLogsReq
    /\ UNCHANGED <<admin_token, clock, not_logs>>

\* PostgresService.log_query_async: add, commit; SQLAlchemyError is swallowed
LogQueryAsync(s, db) ==
    /\ logs_req.pc = "done"
    /\ Len(table) < MaxRows
    /\ IF db = "ok"
       THEN table' = Append(table, NewRow(table, s, clock))
       ELSE table' = table
    /\ svc_out' = [NoSvcOut EXCEPT !.fn = "log_query_async"]
    /\ logs_req' = NoLogsReq
    /\ UNCHANGED <<admin_token, clock, not_logs>>

\* total as get_query_logs computes it, with the page counted instead
TotalOfMut(selected, page) == Len(page)
TotalOf(selected, page) == Cardinality(selected)

\* PostgresService.get_query_logs called directly
GetQueryLogs(a, db) ==
    /\ logs_req.pc = "done"
    /\ a.offset >= 0
    /\ IF db = "ok"
       THEN \E order \in DescOrders(table, Selected(table, a, clock)) :
               LET page == LimitOffset(order, a.limit, a.offset) IN
               svc_out' = [NoSvcOut EXCEPT !.fn = "get_query_logs", !.args = a,
                             !.at = clock,
                             !.total = TotalOf(Selected(table, a, clock), page),
                             !.items = RowsAt(table, page)]
       ELSE svc_out' = [NoSvcOut EXCEPT !.fn = "get_query_logs", !.args = a,
                                        !.raised = "DatabaseError"]
    /\ logs_req' = NoLogsReq
    /\ UNCHANGED <<admin_token, table, clock, not_logs>>

\* PostgresService.get_analytics and the AnalyticsService reads: select only;
\* get_analytics gives {} on SQLAlchemyError
ReadFns == {"get_analytics", "get_query_volume_by_day", "get_top_questions",
            "get_low_confidence_queries", "get_performance_metrics",
            "get_content_coverage"}
AnalyticsRead(fn, db) ==
    /\ logs_req.pc = "done"
    /\ svc_out' = [NoSvcOut EXCEPT !.fn = fn,
                                   !.total = IF db = "ok" THEN Len(table) ELSE 0]
    /\ logs_req' = NoLogsReq
    /\ UNCHANGED <<admin_token, table, clock, not_logs>>

\* a day passes
Tick ==
    /\ clock < MaxClock
    /\ clock' = clock + 1
    /\ UNCHANGED <<admin_token, table, logs_req, svc_out, not_logs>>

\* the gate on its own: any ADMIN_TOKEN, any header, the table left empty
InitGate ==
    /\ CoreInit
    /\ Idle("logs")
    /\ admin_token \in AdminTokens
    /\ table = <<>>
    /\ clock = 0
    /\ logs_req = NoLogsReq
    /\ svc_out = NoSvcOut

NextGate ==
    \/ \E e \in Endpoints, h \in Headers :
          \E a \in (IF e = "/logs" THEN ApiArgs ELSE {DefaultArgs}) : LogsReceived(e, h, a)
    \/ AdminGate
    \/ LogsEndpoint
    \/ AnalyticsEndpoint

SpecGate == InitGate /\ [][NextGate]_vars

\* the table and its readers and writers, ADMIN_TOKEN unset
InitLogs ==
    /\ CoreInit
    /\ Idle("logs")
    /\ admin_token = None
    /\ table = <<>>
    /\ clock = 0
    /\ logs_req = NoLogsReq
    /\ svc_out = NoSvcOut

NextLogs ==
    \/ \E e \in Endpoints :
          \E a \in (IF e = "/logs" THEN ApiArgs ELSE {DefaultArgs}) : LogsReceived(e, None, a)
    \/ AdminGate
    \/ LogsEndpoint
    \/ AnalyticsEndpoint
    \/ \E s \in SessionIds, db \in DbResults : SaveQuery(s, db)
    \/ \E s \in SessionIds, db \in DbResults : LogQueryAsync(s, db)
    \/ \E a \in LogsArgs, db \in DbResults : GetQueryLogs(a, db)
    \/ \E fn \in ReadFns, db \in DbResults : AnalyticsRead(fn, db)
    \/ Tick

SpecLogs == InitLogs /\ [][NextLogs]_vars


\* ==================================== error bodies of two failing requests
\* the external calls of the pipeline that can raise, and what the provider
\* library's exception says
FailSites == {"qdrant.search:UnexpectedResponse", "qdrant.search:Exception",
              "gemini.embed_content", "gemini.generate_content"}
ProviderTexts == {"connection refused 10.0.0.5:6333", "401 API key not valid", "timeout"}

\* the f-strings of the services' except clauses; a message is the sequence of
\* its parts
ServiceMessage(site, text) ==
    CASE site = "qdrant.search:UnexpectedResponse" -> <<"Search failed: ", text>>
      [] site = "qdrant.search:Exception" -> <<"Vector search error: ", text>>
      [] site = "gemini.embed_content" -> <<"Failed to generate embedding: ", text>>
      [] site = "gemini.generate_content" -> <<"Failed to generate response: ", text>>

\* the class the service raises
ServiceError(site) ==
    IF site \in {"qdrant.search:UnexpectedResponse", "qdrant.search:Exception"}
    THEN "QdrantUnavailableError" ELSE "GeminiAPIError"

\* HTTPException(status_code=..., detail=str(e)); str(e) is the message
DetailOf(message) == message

NoRun == [site |-> "none", text |-> "none", pc |-> "done", exc |-> None,
          message |-> <<>>, status |-> 0, body |-> <<>>]

\* the provider library raises inside the service call
ProviderRaises(i) ==
    /\ pair[i].pc = "call"
    /\ pair' = [pair EXCEPT ![i].pc = "except"]
    /\ UNCHANGED not_pair

\* the service's except clause raises its own error around the provider's text
ServiceWraps(i) ==
    /\ pair[i].pc = "except"
    /\ pair' = [pair EXCEPT ![i].pc = "handler",
                            ![i].exc = ServiceError(pair[i].site),
                            ![i].message = ServiceMessage(pair[i].site, pair[i].text)]
    /\ UNCHANGED not_pair

\* process_query lets it through; query_chatbot's except clause answers
HandlerAnswers(i) ==
    /\ pair[i].pc = "handler"
    /\ pair' = [pair EXCEPT ![i].pc = "done",
                            ![i].status = AfterPipeline(Raised(pair[i].exc)),
                            ![i].body = DetailOf(pair[i].message)]
    /\ UNCHANGED not_pair

InitPair ==
    /\ CoreInit
    /\ Idle("pair")
    /\ pair \in [1..2 -> { [NoRun EXCEPT !.site = s, !.text = t, !.pc = "call"] :
                             s \in FailSites, t \in ProviderTexts }]

NextPair ==
    \/ \E i \in 1..2 : ProviderRaises(i)
    \/ \E i \in 1..2 : ServiceWraps(i)
    \/ \E i \in 1..2 : HandlerAnswers(i)

SpecPair == InitPair /\ [][NextPair]_vars


\* ===================================== concurrent requests on the event loop
NumTasks == 2
MaxServed == 2

Tasks == 1..NumTasks
NoTask == [pc |-> "idle", session |-> 0, outcome |-> "none", served |-> 0]

\* the global right after `if g is None: g = Service()`, and with the
\* assignment left out
GlobalAfterCheckMut(g, instance) == g
GlobalAfterCheck(g, instance) == IF g = None THEN instance ELSE g

\* the session when `async with async_session_maker() as session` is left, and
\* with the close skipped when the handler raised
SessionAfterExitMut(outcome) == IF outcome = "raise" THEN "open" ELSE "closed"
SessionAfterExit(outcome) == "closed"

\* a request arrives; Depends(get_session) enters async_session_maker() and
\* yields a new AsyncSession to query_chatbot
Arrive(i) ==
    /\ procs[i].pc = "idle"
    /\ procs[i].served < MaxServed
    /\ sessions' = Append(sessions, [owner |-> i, state |-> "open", users |-> {}])
    /\ procs' = [procs EXCEPT ![i].pc = "init_qdrant", ![i].session = Len(sessions) + 1,
                              ![i].outcome = "none"]
    /\ UNCHANGED <<qdrant_service, gemini_service, built, not_race>>

\* init_services: `if qdrant_service is None: qdrant_service = QdrantService()`,
\* then init() is awaited
CheckQdrant(i) ==
    /\ procs[i].pc = "init_qdrant"
    /\ qdrant_service' = GlobalAfterCheck(qdrant_service, "NoClient")
    /\ IF qdrant_service = None
       THEN /\ built' = [built EXCEPT !.qdrant = @ + 1]
            /\ procs' = [procs EXCEPT ![i].pc = "await_qdrant_init"]
       ELSE /\ procs' = [procs EXCEPT ![i].pc = "init_gemini"]
            /\ UNCHANGED built
    /\ UNCHANGED <<gemini_service, sessions, not_race>>

\* QdrantService.init: builds the client and lists the collections, or raises
\* QdrantUnavailableError, which query_chatbot turns into a 500
QdrantInit(i) ==
    /\ procs[i].pc = "await_qdrant_init"
    /\ built' = [built EXCEPT !.qdrant_init = @ + 1]
    /\ \/ /\ qdrant_service' = "Ready"
          /\ procs' = [procs EXCEPT ![i].pc = "init_gemini"]
       \/ /\ qdrant_service' \in {"NoClient", "Unverified"}
          /\ procs' = [procs EXCEPT ![i].pc = "exit", ![i].outcome = "raise"]
    /\ UNCHANGED <<gemini_service, sessions, not_race>>

\* init_services: `if gemini_service is None: gemini_service = GeminiService()`
CheckGemini(i) ==
    /\ procs[i].pc = "init_gemini"
    /\ gemini_service' = GlobalAfterCheck(gemini_service, "Unverified")
    /\ IF gemini_service = None
       THEN /\ built' = [built EXCEPT !.gemini = @ + 1]
            /\ procs' = [procs EXCEPT ![i].pc = "await_gemini_init"]
       ELSE /\ procs' = [procs EXCEPT ![i].pc = "pipeline"]
            /\ UNCHANGED built
    /\ UNCHANGED <<qdrant_service, sessions, not_race>>

\* GeminiService.init: lists the models or raises GeminiAPIError
GeminiInit(i) ==
    /\ procs[i].pc = "await_gemini_init"
    /\ built' = [built EXCEPT !.gemini_init = @ + 1]
    /\ \/ /\ gemini_service' = "Ready"
          /\ procs' = [procs EXCEPT ![i].pc = "pipeline"]
       \/ /\ gemini_service' = "Unverified"
          /\ procs' = [procs EXCEPT ![i].pc = "exit", ![i].outcome = "raise"]
    /\ UNCHANGED <<qdrant_service, sessions, not_race>>

\* the rest of query_chatbot: PostgresService(session) works on the session the
\* dependency gave this request; the handler returns or raises HTTPException
Handle(i) ==
    /\ procs[i].pc = "pipeline"
    /\ sessions' = [sessions EXCEPT ![procs[i].session].users = @ \cup {i}]
    /\ \E o \in {"return", "raise"} :
          procs' = [procs EXCEPT ![i].pc = "exit", ![i].outcome = o]
    /\ UNCHANGED <<qdrant_service, gemini_service, built, not_race>>

\* the request ends: get_session's `async with` is left and closes the session
CloseSession(i) ==
    /\ procs[i].pc = "exit"
    /\ sessions' = [sessions EXCEPT ![procs[i].session].state =
                                        SessionAfterExit(procs[i].outcome)]
    /\ procs' = [procs EXCEPT ![i].pc = "idle", ![i].served = @ + 1]
    /\ UNCHANGED <<qdrant_service, gemini_service, built, not_race>>

\* what the event loop runs once a request is in
Progress(i) ==
    \/ CheckQdrant(i)
    \/ QdrantInit(i)
    \/ CheckGemini(i)
    \/ GeminiInit(i)
    \/ Handle(i)
    \/ CloseSession(i)

InitRace ==
    /\ CoreInit
    /\ Idle("race")
    /\ procs = [i \in Tasks |-> NoTask]
    /\ sessions = <<>>
    /\ built = NoBuilt

NextRace ==
    \/ \E i \in Tasks : Arrive(i)
    \/ \E i \in Tasks : CheckQdrant(i)
    \/ \E i \in Tasks : QdrantInit(i)
    \/ \E i \in Tasks : CheckGemini(i)
    \/ \E i \in Tasks : GeminiInit(i)
    \/ \E i \in Tasks : Handle(i)
    \/ \E i \in Tasks : CloseSession(i)

\* the event loop runs every ready task
SpecRace == InitRace /\ [][NextRace]_vars /\ \A i \in Tasks : WF_vars(Progress(i))


\* ============================================ the confidence score function
ScoreSims == {0, 300, 550, 1000}
ScoreLens == {0, 100, 200, 300}
ScoreLists == UNION { [1..n -> ScoreSims] : n \in 0..MaxChunks }

\* rag_service._calculate_confidence_score(chunks, response) is called
CalculateScore ==
    /\ score.pc = "call"
    /\ score' = [score EXCEPT !.pc = "done",
                              !.out = ConfidenceFraction(score.chunks, score.response_len)]
    /\ UNCHANGED not_score

InitScore ==
    /\ CoreInit
    /\ Idle("score")
    /\ score \in [chunks : ScoreLists, response_len : ScoreLens, pc : {"call"},
                  out : {Frac(0, 1)}]

NextScore == CalculateScore

SpecScore == InitScore /\ [][NextScore]_vars


\* ===================================================== the metrics collector
MaxOps == 3

\* metric names as their "__"-separated parts: "q", and "q__x"
MetricNames == {<<"q">>, <<"q", "x">>}
\* the labels argument: None, {} or a non-empty dict
LabelArgs == {None, "{}", "[('k', 'v')]"}
MetricValues == {1, 2, 3}
\* the series the recording calls are made on
SeriesArgs == { <<<<"q">>, None>>, <<<<"q">>, "{}">>, <<<<"q">>, "[('k', 'v')]">>,
                <<<<"q", "x">>, None>> }

\* f"{name}__{str(sorted(labels.items()) if labels else 'none')}", as the
\* sequence of the "__"-separated parts of the string
MetricKey(name, labels) ==
    name \o << IF labels \in {None, "{}"} THEN "none" ELSE labels >>

Has(map, k) == k \in DOMAIN map
Put(map, k, v) == [x \in DOMAIN map \cup {k} |-> IF x = k THEN v ELSE map[x]]
Get(map, k, default) == IF Has(map, k) THEN map[k] ELSE default

\* sorted(values)
RECURSIVE Insert(_, _)
Insert(sq, v) ==
    IF sq = <<>> THEN <<v>>
    ELSE IF v <= Head(sq) THEN <<v>> \o sq
    ELSE <<Head(sq)>> \o Insert(Tail(sq), v)
RECURSIVE Sorted(_)
Sorted(sq) == IF sq = <<>> THEN <<>> ELSE Insert(Sorted(Tail(sq)), Head(sq))

\* the index with the rank taken on n - 1
PercentileIdxMut(p, n) == (p * (n - 1)) \div 100
\* int(0.5 * n), int(0.95 * n), int(0.99 * n) for p = 50, 95, 99
PercentileIdx(p, n) == (p * n) \div 100

\* sorted_values[idx] if idx < n else 0 (0-based idx)
AtIdx(sorted_values, idx) ==
    IF idx < Len(sorted_values) THEN sorted_values[idx + 1] ELSE 0

\* get_histogram_stats; avg as the pair <<sum, count>>
HistogramStats(map, name, labels) ==
    LET values == Get(map, MetricKey(name, labels), <<>>) IN
    IF values = <<>> THEN [count |-> 0, sum |-> 0, avg |-> <<0, 1>>, min |-> 0, max |-> 0]
    ELSE [count |-> Len(values), sum |-> SumSeq(values),
          avg |-> <<SumSeq(values), Len(values)>>,
          min |-> Sorted(values)[1], max |-> Sorted(values)[Len(values)]]

\* get_summary_stats
SummaryStats(map, name, labels) ==
    LET values == Get(map, MetricKey(name, labels), <<>>) IN
    IF values = <<>>
    THEN [count |-> 0, sum |-> 0, avg |-> <<0, 1>>, min |-> 0, max |-> 0,
          p50 |-> 0, p95 |-> 0, p99 |-> 0]
    ELSE LET sorted_values == Sorted(values)
             n == Len(sorted_values)
         IN [count |-> n, sum |-> SumSeq(sorted_values),
             avg |-> <<SumSeq(sorted_values), n>>,
             min |-> sorted_values[1], max |-> sorted_values[n],
             p50 |-> AtIdx(sorted_values, PercentileIdx(50, n)),
             p95 |-> AtIdx(sorted_values, PercentileIdx(95, n)),
             p99 |-> AtIdx(sorted_values, PercentileIdx(99, n))]

\* get_all_metrics takes a key apart again: k.split("__")[0] is the name,
\* k.split("__", 1)[1] the labels text, which is 'none' or is given to eval
ParsedName(k) == <<Head(k)>>
EvalRaises(k) == Len(k) > 2
ParsedLabels(k) == IF Tail(k) = <<"none">> THEN None ELSE k[2]

\* what reset_metrics leaves of a map, and with clear() doing nothing
ClearedMut(map) == map
Cleared(map) == EmptyMap

\* increment_counter(name, labels): defaultdict(int)[key] += 1
IncrementCounter(name, labels) ==
    /\ recorded < MaxOps
    /\ collector' = [collector EXCEPT !.counters =
           Put(@, MetricKey(name, labels), Get(@, MetricKey(name, labels), 0) + 1)]
    /\ met_out' = NoMetOut
    /\ quiet' = FALSE
    /\ recorded' = recorded + 1
    /\ UNCHANGED not_metrics

\* set_gauge(name, value, labels)
SetGauge(name, value, labels) ==
    /\ recorded < MaxOps
    /\ collector' = [collector EXCEPT !.gauges = Put(@, MetricKey(name, labels), value)]
    /\ met_out' = NoMetOut
    /\ quiet' = FALSE
    /\ recorded' = recorded + 1
    /\ UNCHANGED not_metrics

\* observe_histogram(name, value, labels): defaultdict(list)[key].append(value)
ObserveHistogram(name, value, labels) ==
    /\ recorded < MaxOps
    /\ collector' = [collector EXCEPT !.histograms =
           Put(@, MetricKey(name, labels),
               Append(Get(@, MetricKey(name, labels), <<>>), value))]
    /\ met_out' = NoMetOut
    /\ quiet' = FALSE
    /\ recorded' = recorded + 1
    /\ UNCHANGED not_metrics

\* observe_summary(name, value, labels)
ObserveSummary(name, value, labels) ==
    /\ recorded < MaxOps
    /\ collector' = [collector EXCEPT !.summaries =
           Put(@, MetricKey(name, labels),
               Append(Get(@, MetricKey(name, labels), <<>>), value))]
    /\ met_out' = NoMetOut
    /\ quiet' = FALSE
    /\ recorded' = recorded + 1
    /\ UNCHANGED not_metrics

\* get_summary_stats(name, labels)
GetSummaryStats(name, labels) ==
    /\ met_out' = [NoMetOut EXCEPT !.fn = "get_summary_stats",
                                   !.key = MetricKey(name, labels),
                                   !.value = SummaryStats(collector.summaries, name, labels)]
    /\ UNCHANGED <<collector, quiet, recorded, not_metrics>>

\* get_all_metrics(): the four maps, or the exception eval raises on a key
GetAllMetrics ==
    /\ IF \E k \in DOMAIN collector.histograms \cup DOMAIN collector.summaries : EvalRaises(k)
       THEN met_out' = [NoMetOut EXCEPT !.fn = "get_all_metrics", !.raised = TRUE]
       ELSE met_out' = [NoMetOut EXCEPT !.fn = "get_all_metrics", !.value =
              [counters |-> collector.counters,
               gauges |-> collector.gauges,
               histograms |-> [k \in DOMAIN collector.histograms |->
                   HistogramStats(collector.histograms, ParsedName(k), ParsedLabels(k))],
               summaries |-> [k \in DOMAIN collector.summaries |->
                   SummaryStats(collector.summaries, ParsedName(k), ParsedLabels(k))]]]
    /\ UNCHANGED <<collector, quiet, recorded, not_metrics>>

\* reset_metrics(): clear() on each of the four maps
ResetMetrics ==
    /\ collector' = [counters |-> Cleared(collector.counters),
                     gauges |-> Cleared(collector.gauges),
                     histograms |-> Cleared(collector.histograms),
                     summaries |-> Cleared(collector.summaries)]
    /\ met_out' = NoMetOut
    /\ quiet' = TRUE
    /\ UNCHANGED <<recorded, not_metrics>>

InitMetrics ==
    /\ CoreInit
    /\ Idle("metrics")
    /\ collector = NewCollector
    /\ met_out = NoMetOut
    /\ quiet = FALSE
    /\ recorded = 0

NextMetrics ==
    \/ \E a \in SeriesArgs : IncrementCounter(a[1], a[2])
    \/ \E a \in SeriesArgs, v \in MetricValues : SetGauge(a[1], v, a[2])
    \/ \E a \in SeriesArgs, v \in MetricValues : ObserveHistogram(a[1], v, a[2])
    \/ \E a \in SeriesArgs, v \in MetricValues : ObserveSummary(a[1], v, a[2])
    \/ \E a \in SeriesArgs : GetSummaryStats(a[1], a[2])
    \/ GetAllMetrics
    \/ ResetMetrics

SpecMetrics == InitMetrics /\ [][NextMetrics]_vars


\* ======================================================= the middleware stack
\* main.py: app.add_middleware calls, in program order
Added == <<"CORSMiddleware", "RequestLoggingMiddleware", "RequestIDMiddleware">>

\* the stack with the middleware run in the order they were added
MiddlewareStackMut(added) == added
\* the stack from the outside in: the middleware added last is the outermost
MiddlewareStack(added) == [i \in 1..Len(added) |-> added[Len(added) + 1 - i]]

\* X-Correlation-ID of the request: not sent, sent empty, sent with a value
InboundIds == {None, "", "client-id"}
\* what the router, the endpoint and the exception handlers inside the stack answer
RouteStatuses == {200, 400, 401, 404, 422, 500, 502, 503}

\* str(uuid.uuid4()): the k-th id generated while serving this request
Uuid(k) == <<"uuid4-a", "uuid4-b", "uuid4-c">>[k]

\* headers.get(name, default) and getattr(state, name, default)
GetOr(v, default) == IF v = None THEN default ELSE v

\* a request reaches the application
HttpReceived(inbound, preflight) ==
    /\ http.pc = "sent"
    /\ http' = [NoHttp EXCEPT !.pc = "in", !.pos = 1, !.inbound = inbound,
                              !.preflight = preflight]
    /\ UNCHANGED not_http

\* dispatch of the middleware at http.pos up to `await call_next(request)`;
\* CORSMiddleware answers a preflight request itself
EnterMiddleware ==
    /\ http.pc = "in"
    /\ http.pos <= Len(MiddlewareStack(Added))
    /\ LET mw == MiddlewareStack(Added)[http.pos] IN
       CASE mw = "RequestIDMiddleware" ->
              http' = [http EXCEPT !.uuids = @ + 1,
                                   !.id_cid = GetOr(http.inbound, Uuid(http.uuids + 1)),
                                   !.state_cid = GetOr(http.inbound, Uuid(http.uuids + 1)),
                                   !.pos = @ + 1]
         [] mw = "RequestLoggingMiddleware" ->
              http' = [http EXCEPT !.uuids = @ + 1,
                                   !.log_received = GetOr(http.state_cid, Uuid(http.uuids + 1)),
                                   !.pos = @ + 1]
         [] mw = "CORSMiddleware" ->
              IF http.preflight
              THEN http' = [http EXCEPT !.pc = "out", !.status = 200, !.pos = @ - 1]
              ELSE http' = [http EXCEPT !.pos = @ + 1]
    /\ UNCHANGED not_http

\* inside the stack: routing, the endpoint, and the handlers that turn
\* HTTPException, validation errors and the chatbot errors into responses
RouteResponds(s) ==
    /\ http.pc = "in"
    /\ http.pos = Len(MiddlewareStack(Added)) + 1
    /\ http' = [http EXCEPT !.pc = "out", !.status = s, !.pos = @ - 1]
    /\ UNCHANGED not_http

\* dispatch of the middleware at http.pos after call_next has returned
LeaveMiddleware ==
    /\ http.pc = "out"
    /\ LET mw == IF http.pos >= 1 THEN MiddlewareStack(Added)[http.pos] ELSE "none" IN
       CASE mw = "RequestIDMiddleware" ->
              http' = [http EXCEPT !.header = http.id_cid, !.pos = @ - 1]
         [] mw = "RequestLoggingMiddleware" ->
              http' = [http EXCEPT !.log_completed = http.log_received, !.pos = @ - 1]
         [] mw = "CORSMiddleware" ->
              http' = [http EXCEPT !.pos = @ - 1]
         [] mw = "none" ->
              http' = [http EXCEPT !.pc = "sent"]
    /\ UNCHANGED not_http

InitHttp ==
    /\ CoreInit
    /\ Idle("http")
    /\ http = NoHttp

NextHttp ==
    \/ \E inbound \in InboundIds, preflight \in BOOLEAN : HttpReceived(inbound, preflight)
    \/ EnterMiddleware
    \/ \E s \in RouteStatuses : RouteResponds(s)
    \/ LeaveMiddleware

SpecHttp == InitHttp /\ [][NextHttp]_vars


\* ============================== the decorated process_query and its metrics
MaxCalls == 2

QUERY_DURATION_HISTOGRAM == <<"rag_query_duration_seconds">>
RETRIEVAL_DURATION_HISTOGRAM == <<"rag_retrieval_duration_seconds">>
GENERATION_DURATION_HISTOGRAM == <<"rag_generation_duration_seconds">>
QUERY_TOTAL_COUNTER == <<"rag_query_total">>
QUERY_ERROR_COUNTER == <<"rag_query_errors_total">>
ACTIVE_QUERIES_GAUGE == <<"rag_active_queries">>

\* time.time() - start, in clock ticks
Elapsed == {1, 2}

\* str(sorted(labels.items())) of {"operation": operation, "session_id": s}
OperationLabels(operation, s) ==
    CASE operation = "vector_search" /\ s = "s1" ->
             "[('operation', 'vector_search'), ('session_id', 's1')]"
      [] operation = "vector_search" /\ s = "s2" ->
             "[('operation', 'vector_search'), ('session_id', 's2')]"
      [] operation = "llm_generation" /\ s = "s1" ->
             "[('operation', 'llm_generation'), ('session_id', 's1')]"
      [] operation = "llm_generation" /\ s = "s2" ->
             "[('operation', 'llm_generation'), ('session_id', 's2')]"
\* str(sorted(labels.items())) of {"session_id": s}
SessionLabels(s) ==
    CASE s = "s1" -> "[('session_id', 's1')]"
      [] s = "s2" -> "[('session_id', 's2')]"

\* the counters after increment_counter(name, labels), and with the value
\* stored as 1 whatever the counter held
IncrementedMut(counters, name, labels) == Put(counters, MetricKey(name, labels), 1)
Incremented(counters, name, labels) ==
    Put(counters, MetricKey(name, labels), Get(counters, MetricKey(name, labels), 0) + 1)

\* the histograms after observe_histogram(name, value, labels)
Observed(histograms, name, value, labels) ==
    Put(histograms, MetricKey(name, labels),
        Append(Get(histograms, MetricKey(name, labels), <<>>), value))

\* what record_error's `raise e` hands to its caller, and with the exception
\* swallowed
ReRaisedMut(e) == None
ReRaised(e) == e

\* `except Exception` of measure_duration and record_error
CatchesException(e) == IsInstance(e, "Exception")

NoCall == [pc |-> "idle", session_id |-> "s1", done |-> 0, exc |-> None,
           counted |-> 0, errors |-> 0, observed |-> 0, body |-> "none",
           counted_at_body |-> 0, body_exc |-> None, ended |-> "none",
           propagated |-> None, overlapped |-> FALSE]

\* invocations begun so far by the tasks 1..n
RECURSIVE Begun(_)
Begun(n) ==
    IF n = 0 THEN 0
    ELSE runs[n].done + (IF runs[n].pc # "idle" THEN 1 ELSE 0) + Begun(n - 1)

\* a caller awaits process_query(question, session_id): measure_duration's
\* wrapper takes start_time and awaits count_calls' wrapper
Invoke(i, s) ==
    /\ runs[i].pc = "idle"
    /\ Begun(NumTasks) < MaxCalls
    /\ runs' = [runs EXCEPT ![i] = [NoCall EXCEPT !.pc = "count_calls", !.session_id = s,
                                                  !.done = runs[i].done,
                                                  !.overlapped =
                                                     \E j \in Tasks : runs[j].pc # "idle"]]
    /\ met_out' = NoMetOut
    /\ UNCHANGED <<collector, not_instr>>

\* count_calls: increment_counter(QUERY_TOTAL_COUNTER), then await
\* record_error's wrapper, which enters its try and awaits the body
CountCalls(i) ==
    /\ runs[i].pc = "count_calls"
    /\ collector' = [collector EXCEPT !.counters = Incremented(@, QUERY_TOTAL_COUNTER, None)]
    /\ runs' = [runs EXCEPT ![i].pc = "validate", ![i].counted = @ + 1]
    /\ met_out' = NoMetOut
    /\ UNCHANGED not_instr

\* body, stage 1: validate_query_input returns or raises ValidationError
Validate(i) ==
    /\ runs[i].pc = "validate"
    /\ \/ runs' = [runs EXCEPT ![i].pc = "embed", ![i].body = "started",
                               ![i].counted_at_body = runs[i].counted]
       \/ runs' = [runs EXCEPT ![i].pc = "record_error", ![i].body = "raised",
                               ![i].counted_at_body = runs[i].counted,
                               ![i].exc = "validators.ValidationError",
                               ![i].body_exc = "validators.ValidationError"]
    /\ met_out' = NoMetOut
    /\ UNCHANGED <<collector, not_instr>>

\* body, stage 2: await self.gemini.generate_embedding(question)
Embed(i) ==
    /\ runs[i].pc = "embed"
    /\ \/ runs' = [runs EXCEPT ![i].pc = "search"]
       \/ runs' = [runs EXCEPT ![i].pc = "record_error", ![i].body = "raised",
                               ![i].exc = "GeminiAPIError", ![i].body_exc = "GeminiAPIError"]
    /\ met_out' = NoMetOut
    /\ UNCHANGED <<collector, not_instr>>

\* body, stage 2: await self.qdrant.search_similar_chunks(...); on return the
\* retrieval duration is observed with the operation and session_id labels,
\* and with no chunk the not-found answer is returned
Search(i) ==
    /\ runs[i].pc = "search"
    /\ \/ \E d \in Elapsed, found \in BOOLEAN :
            /\ collector' = [collector EXCEPT !.histograms =
                   Observed(@, RETRIEVAL_DURATION_HISTOGRAM, d,
                            OperationLabels("vector_search", runs[i].session_id))]
            /\ runs' = [runs EXCEPT ![i].pc = IF found THEN "generate" ELSE "measure",
                                    ![i].body = IF found THEN "started" ELSE "returned"]
       \/ /\ runs' = [runs EXCEPT ![i].pc = "record_error", ![i].body = "raised",
                                  ![i].exc = "QdrantUnavailableError",
                                  ![i].body_exc = "QdrantUnavailableError"]
          /\ UNCHANGED collector
    /\ met_out' = NoMetOut
    /\ UNCHANGED not_instr

\* body, stage 4: await self.gemini.generate_response_for_query(...); on return
\* the generation duration is observed with labels and the gauge is set
Generate(i) ==
    /\ runs[i].pc = "generate"
    /\ \/ \E d \in Elapsed :
            /\ collector' = [collector EXCEPT
                   !.histograms = Observed(@, GENERATION_DURATION_HISTOGRAM, d,
                       OperationLabels("llm_generation", runs[i].session_id)),
                   !.gauges = Put(@, MetricKey(ACTIVE_QUERIES_GAUGE,
                                               SessionLabels(runs[i].session_id)), 0)]
            /\ runs' = [runs EXCEPT ![i].pc = "save"]
       \/ /\ runs' = [runs EXCEPT ![i].pc = "record_error", ![i].body = "raised",
                                  ![i].exc = "GeminiAPIError",
                                  ![i].body_exc = "GeminiAPIError"]
          /\ UNCHANGED collector
    /\ met_out' = NoMetOut
    /\ UNCHANGED not_instr

\* body, stage 6: await self.postgres.save_query(...), then the answer is returned
Save(i) ==
    /\ runs[i].pc = "save"
    /\ \/ runs' = [runs EXCEPT ![i].pc = "measure", ![i].body = "returned"]
       \/ runs' = [runs EXCEPT ![i].pc = "record_error", ![i].body = "raised",
                               ![i].exc = "DatabaseError", ![i].body_exc = "DatabaseError"]
    /\ met_out' = NoMetOut
    /\ UNCHANGED <<collector, not_instr>>

\* record_error: except Exception as e: increment_counter(QUERY_ERROR_COUNTER);
\* raise e, which passes through count_calls' wrapper
RecordError(i) ==
    /\ runs[i].pc = "record_error"
    /\ IF CatchesException(runs[i].exc)
       THEN /\ collector' = [collector EXCEPT
                   !.counters = Incremented(@, QUERY_ERROR_COUNTER, None)]
            /\ runs' = [runs EXCEPT ![i].pc = "measure", ![i].errors = @ + 1,
                                    ![i].exc = ReRaised(runs[i].exc)]
       ELSE /\ runs' = [runs EXCEPT ![i].pc = "measure"]
            /\ UNCHANGED collector
    /\ met_out' = NoMetOut
    /\ UNCHANGED not_instr

\* measure_duration: after the await returned, or in except Exception, the
\* duration is observed without labels; then the result is returned or the
\* exception raised to the caller
Measure(i) ==
    /\ runs[i].pc = "measure"
    /\ IF runs[i].exc = None \/ CatchesException(runs[i].exc)
       THEN \E d \in Elapsed :
            /\ collector' = [collector EXCEPT !.histograms =
                   Observed(@, QUERY_DURATION_HISTOGRAM, d, None)]
            /\ runs' = [runs EXCEPT ![i].pc = "idle", ![i].observed = @ + 1,
                                    ![i].done = @ + 1,
                                    ![i].ended = IF runs[i].exc = None THEN "returned"
                                                 ELSE "raised",
                                    ![i].propagated = runs[i].exc,
                                    ![i].exc = None]
       ELSE /\ runs' = [runs EXCEPT ![i].pc = "idle", ![i].done = @ + 1,
                                    ![i].ended = "raised",
                                    ![i].propagated = runs[i].exc, ![i].exc = None]
            /\ UNCHANGED collector
    /\ met_out' = NoMetOut
    /\ UNCHANGED not_instr

\* the average the overview shows for one histogram: stats["avg"] of the entry
\* under the key without labels if there is one with count > 0, else 0
OverviewAvg(histograms, name) ==
    LET stats == Get(histograms, MetricKey(name, None), [count |-> 0]) IN
    IF stats.count > 0 THEN stats.avg ELSE <<0, 1>>

\* GET /metrics/overview: get_all_metrics(), the two totals, the success rate
\* and the three averages; met_out holds the response until the next step
GetMetricsOverview ==
    /\ IF \E k \in DOMAIN collector.histograms \cup DOMAIN collector.summaries : EvalRaises(k)
       THEN met_out' = [NoMetOut EXCEPT !.fn = "get_metrics_overview", !.raised = TRUE]
       ELSE LET histograms == [k \in DOMAIN collector.histograms |->
                    HistogramStats(collector.histograms, ParsedName(k), ParsedLabels(k))]
                total_requests == Get(collector.counters, MetricKey(QUERY_TOTAL_COUNTER, None), 0)
                total_errors == Get(collector.counters, MetricKey(QUERY_ERROR_COUNTER, None), 0)
            IN met_out' = [NoMetOut EXCEPT !.fn = "get_metrics_overview", !.value =
                 [total_requests |-> total_requests,
                  total_errors |-> total_errors,
                  success_rate |-> IF total_requests > 0
                                   THEN <<total_requests - total_errors, total_requests>>
                                   ELSE <<0, 1>>,
                  query_duration_avg |-> OverviewAvg(histograms, QUERY_DURATION_HISTOGRAM),
                  retrieval_duration_avg |->
                      OverviewAvg(histograms, RETRIEVAL_DURATION_HISTOGRAM),
                  generation_duration_avg |->
                      OverviewAvg(histograms, GENERATION_DURATION_HISTOGRAM),
                  details |-> [counters |-> collector.counters,
                               gauges |-> collector.gauges,
                               histograms |-> histograms]]]
    /\ UNCHANGED <<collector, runs, not_instr>>

InitInstr ==
    /\ CoreInit
    /\ Idle("instr")
    /\ runs = [i \in Tasks |-> NoCall]

NextInstr ==
    \/ \E i \in Tasks, s \in SessionIds : Invoke(i, s)
    \/ \E i \in Tasks : CountCalls(i)
    \/ \E i \in Tasks : Validate(i)
    \/ \E i \in Tasks : Embed(i)
    \/ \E i \in Tasks : Search(i)
    \/ \E i \in Tasks : Generate(i)
    \/ \E i \in Tasks : Save(i)
    \/ \E i \in Tasks : RecordError(i)
    \/ \E i \in Tasks : Measure(i)
    \/ GetMetricsOverview

SpecInstr == InitInstr /\ [][NextInstr]_vars


\* ========================================================= scripts/load_test.py
MaxRequests == 2

\* --users and --duration as argparse gives them (type=int)
UsersArgs == -1..2
DurationArgs == -1..2

\* the process status after KeyboardInterrupt: caught by main's except clause,
\* which calls sys.exit(0), or not delivered inside main's try (asyncio.run
\* cancels the main task and raises KeyboardInterrupt itself)
ExitOnInterrupt(handled) == IF handled THEN 0 ELSE 130

\* main(): parse_args, then the two checks, each of which prints an error and
\* calls sys.exit(1); then LoadTester(...) and run_load_test() is awaited
CliStart(users, duration) ==
    /\ cli.pc \in {"none", "exited"}
    /\ IF users <= 0
       THEN cli' = [NoCli EXCEPT !.pc = "exited", !.users = users, !.duration = duration,
                                 !.printed = "users_error", !.exit = 1]
       ELSE IF duration <= 0
       THEN cli' = [NoCli EXCEPT !.pc = "exited", !.users = users, !.duration = duration,
                                 !.printed = "duration_error", !.exit = 1]
       ELSE cli' = [NoCli EXCEPT !.pc = "running", !.users = users, !.duration = duration]
    /\ UNCHANGED not_cli

\* run_load_test: one more request has completed, successfully or not
RequestCompletes(success) ==
    /\ cli.pc = "running"
    /\ cli.completed < MaxRequests
    /\ cli' = [cli EXCEPT !.completed = @ + 1,
                          !.failed = IF success THEN @ ELSE @ + 1]
    /\ UNCHANGED not_cli

\* run_load_test returns the metrics, print_results prints the table, main
\* returns and the process ends with status 0
RunCompletes ==
    /\ cli.pc = "running"
    /\ cli' = [cli EXCEPT !.pc = "exited", !.printed = "results", !.exit = 0]
    /\ UNCHANGED not_cli

\* Ctrl-C during the run
RunInterrupted(handled) ==
    /\ cli.pc = "running"
    /\ cli' = [cli EXCEPT !.pc = "exited", !.interrupted = TRUE,
                          !.printed = IF handled THEN "interrupted" ELSE "traceback",
                          !.exit = ExitOnInterrupt(handled)]
    /\ UNCHANGED not_cli

\* run_load_test or print_results raises: except Exception prints the error and
\* calls sys.exit(1)
RunFails ==
    /\ cli.pc = "running"
    /\ cli' = [cli EXCEPT !.pc = "exited", !.printed = "run_error", !.exit = 1]
    /\ UNCHANGED not_cli

InitCli ==
    /\ CoreInit
    /\ Idle("cli")
    /\ cli = NoCli

NextCli ==
    \/ \E u \in UsersArgs, t \in DurationArgs : CliStart(u, t)
    \/ \E success \in BOOLEAN : RequestCompletes(success)
    \/ RunCompletes
    \/ \E handled \in BOOLEAN : RunInterrupted(handled)
    \/ RunFails

SpecCli == InitCli /\ [][NextCli]_vars


\* ================================= scripts/migrate_postgres.py, seed_analytics_data.py
MaxStarts == 2
MaxSamples == 2

ScriptNames == {"migrate_postgres", "seed_analytics_data"}
\* os.getenv("DATABASE_URL"): unset, set to the empty string, or a URL
DatabaseUrls == {None, "", "postgresql+asyncpg://db"}
\* the statements of the migration: CREATE TABLE and the three CREATE INDEX
MigrationStatements == 4

\* the status of the process when asyncio.run(main()) returns, and when an
\* exception propagates out of it
ExitStatus(outcome) == IF outcome = "returned" THEN 0 ELSE 1

\* main() of either script: database_url = os.getenv("DATABASE_URL"); if it is
\* not truthy the error is logged and main returns; else the work starts
ScriptStart(name, url) ==
    /\ script.pc \in {"none", "exited"}
    /\ script.starts < MaxStarts
    /\ IF ~TruthyStr(url)
       THEN script' = [script EXCEPT !.name = name, !.url = url, !.pc = "exited",
                                     !.step = 0, !.logged = "url_not_set",
                                     !.exit = ExitStatus("returned"),
                                     !.starts = @ + 1]
       ELSE script' = [script EXCEPT !.name = name, !.url = url, !.pc = "running",
                                     !.step = 0, !.logged = "starting", !.exit = -1,
                                     !.starts = @ + 1]
    /\ UNCHANGED not_scripts

\* migrate_postgres: the next statement is executed and committed, or raises;
\* main's except logs the failure and re-raises
MigrateStatement(ok) ==
    /\ script.pc = "running"
    /\ script.name = "migrate_postgres"
    /\ script.step < MigrationStatements
    /\ IF ok
       THEN script' = [script EXCEPT !.step = @ + 1,
                                     !.has_table = IF script.step = 0 THEN TRUE ELSE @,
                                     !.indexes = IF script.step = 0 THEN @
                                                 ELSE Max(@, script.step)]
       ELSE script' = [script EXCEPT !.pc = "exited", !.logged = "failed",
                                     !.exit = ExitStatus("raised")]
    /\ UNCHANGED not_scripts

\* migrate_postgres: both functions returned; main logs the completion and returns
MigrateCompletes ==
    /\ script.pc = "running"
    /\ script.name = "migrate_postgres"
    /\ script.step = MigrationStatements
    /\ script' = [script EXCEPT !.pc = "exited", !.logged = "completed",
                                !.exit = ExitStatus("returned")]
    /\ UNCHANGED not_scripts

\* seed_database: Base.metadata.create_all, then one save_query per sample;
\* any of them may raise, which main logs and re-raises
SeedStep(ok) ==
    /\ script.pc = "running"
    /\ script.name = "seed_analytics_data"
    /\ script.step < MaxSamples + 1
    /\ IF ok
       THEN script' = [script EXCEPT !.step = @ + 1,
                                     !.has_table = TRUE,
                                     !.rows = IF script.step = 0 THEN @ ELSE @ + 1]
       ELSE script' = [script EXCEPT !.pc = "exited", !.logged = "failed",
                                     !.exit = ExitStatus("raised")]
    /\ UNCHANGED not_scripts

\* seed_database returned; main logs the completion and returns
SeedCompletes ==
    /\ script.pc = "running"
    /\ script.name = "seed_analytics_data"
    /\ script.step = MaxSamples + 1
    /\ script' = [script EXCEPT !.pc = "exited", !.logged = "completed",
                                !.exit = ExitStatus("returned")]
    /\ UNCHANGED not_scripts

InitScripts ==
    /\ CoreInit
    /\ Idle("scripts")
    /\ script = NoScript

NextScripts ==
    \/ \E name \in ScriptNames, url \in DatabaseUrls : ScriptStart(name, url)
    \/ \E ok \in BOOLEAN : MigrateStatement(ok)
    \/ MigrateCompletes
    \/ \E ok \in BOOLEAN : SeedStep(ok)
    \/ SeedCompletes

SpecScripts == InitScripts /\ [][NextScripts]_vars


\* ======================================================= get_analytics
MaxStored == 2

\* confidence_score (thousandths) and query_duration_ms of a stored row;
\* save_query's default confidence_score is 0.0
StoredScores == {0, 400, 800}
StoredDays == {0, 1}
AnalyticsDaysBack == {0, 1, 2}
AnalyticsNow == 1
StoredRows == [confidence_score : StoredScores, timestamp : StoredDays]
StoredTables == UNION { [1..n -> StoredRows] : n \in 0..MaxStored }

\* select(ChatQuery).where(ChatQuery.timestamp >= cutoff)
RECURSIVE InWindow(_, _)
InWindow(rows, cutoff) ==
    IF rows = <<>> THEN <<>>
    ELSE (IF Head(rows).timestamp >= cutoff THEN <<Head(rows)>> ELSE <<>>)
         \o InWindow(Tail(rows), cutoff)

\* [q.confidence_score for q in queries if q.confidence_score]
RECURSIVE TruthyScores(_)
TruthyScores(queries) ==
    IF queries = <<>> THEN <<>>
    ELSE (IF Head(queries).confidence_score # 0
          THEN <<Head(queries).confidence_score>> ELSE <<>>)
         \o TruthyScores(Tail(queries))

\* the dictionary get_analytics returns; avg_confidence as <<sum, count>>
Analytics(rows, days_back, now) ==
    LET queries == InWindow(rows, now - days_back)
        confidences == TruthyScores(queries)
    IN IF queries = <<>>
       THEN [query_count |-> 0, avg_confidence |-> <<0, 1>>]
       ELSE [query_count |-> Len(queries),
             avg_confidence |-> IF confidences # <<>>
                                THEN <<SumSeq(confidences), Len(confidences)>>
                                ELSE <<0, 1>>]

GetAnalytics(rows, days_back) ==
    /\ analytics' = [rows |-> rows, days_back |-> days_back, now |-> AnalyticsNow,
                     out |-> Analytics(rows, days_back, AnalyticsNow)]
    /\ UNCHANGED not_analytics

InitAnalytics ==
    /\ CoreInit
    /\ Idle("analytics")
    /\ analytics = <<>>

NextAnalytics == \E rows \in StoredTables, days_back \in AnalyticsDaysBack :
                     GetAnalytics(rows, days_back)

SpecAnalytics == InitAnalytics /\ [][NextAnalytics]_vars


\* ================================================================= claims
Range(sq) == { sq[i] : i \in 1..Len(sq) }

InProcessQuery == op \in {"query", "process_query"} /\ Len(stages) > 0

\* search_similar_chunks has returned a list (it did not raise)
SearchReturnedList ==
    /\ InProcessQuery
    /\ "search_similar_chunks" \in Range(stages)
    /\ pc # "pq_search_wait"
    /\ ~(result.kind = "raise" /\ result.exc = "QdrantUnavailableError")

PipelineOrder ==
    <<"validate", "generate_embedding", "search_similar_chunks", "build_prompt",
      "generate_response_for_query", "attribute_score", "save_query">>

IsPrefix(a, b) == Len(a) <= Len(b) /\ \A i \in 1..Len(a) : a[i] = b[i]

\* process_query has returned a generated answer
ReturnedAnswer ==
    InProcessQuery /\ result.kind = "return" /\ Len(retrieved_chunks) > 0

\* C1: when the vector search returns zero chunks, process_query returns the
\* fixed "couldn't find relevant information" response with no source
\* references and confidence 0.0, and neither the generation call nor
\* save_query is invoked for that request.
Thm_C1 ==
    (SearchReturnedList /\ retrieved_chunks = <<>>) =>
        /\ result = NotFoundResult
        /\ result.source_references = 0
        /\ result.confidence_score = 0
        /\ pc \in {"pq_done", "done"}
        /\ "generate_response_for_query" \notin Range(stages)
        /\ "save_query" \notin Range(stages)
        /\ Range(calls) \cap {"gemini.generate_content", "db.commit"} = {}
        /\ retry = NoRetry

Witness_C1 ==
    /\ op = "process_query"
    /\ pc = "done"
    /\ retrieved_chunks = <<>>
    /\ stages = <<"validate", "generate_embedding", "search_similar_chunks">>
    /\ result.response_text = "couldn't find relevant information"

\* C2: in a process_query call that passes validation and retrieves at least
\* one chunk, the stages validate, generate_embedding, search_similar_chunks,
\* build prompt, generate_response_for_query, attribute/score, save_query run
\* in exactly that order, each once, none skipped, and never two in flight.
Thm_C2 ==
    /\ Cardinality(inflight) <= 1
    /\ IsPrefix(stages, PipelineOrder)
    /\ ReturnedAnswer => (stages = PipelineOrder /\ inflight = {})

Witness_C2 ==
    /\ ReturnedAnswer
    /\ pc = "done"
    /\ stages = PipelineOrder
    /\ Len(retrieved_chunks) = 2

\* C3 (as claimed): when process_query raises DatabaseError inside the
\* POST /v1/query handler, the request still ends with HTTP 200.
Cex_C3 ==
    (op = "query" /\ pc = "done" /\ result.kind = "raise" /\ result.exc = "DatabaseError")
        => status = 200

\* C4 (as claimed): a save_query whose commit raises a database-layer error on
\* every attempt is attempted 4 times, with sleeps 0.1s, 0.2s, 0.4s, and only
\* then fails with DatabaseError.
Cex_C4 ==
    (/\ retry.func = "save_query"
     /\ retry.pc = "done"
     /\ \A i \in 1..Len(retry.outcomes) : retry.outcomes[i] = "DatabaseError")
        => /\ Len(retry.outcomes) = SAVE_MAX_RETRIES + 1
           /\ retry.sleeps = <<1, 2, 4>>
           /\ retry.result = [kind |-> "raise", exc |-> "DatabaseError"]

RECURSIVE Pow(_, _)
Pow(b, n) == IF n = 0 THEN 1 ELSE b * Pow(b, n - 1)

\* the sleeps before retries 1..n: d, d*b, ..., d*b^(n-1)
Backoff(d, b, n) == [k \in 1..n |-> d * Pow(b, k - 1)]

AllSqlErrors(outcomes, n) == \A i \in 1..n : outcomes[i] = "SQLAlchemyError"

\* C5: a coroutine wrapped by retry_on_connection_error(m, d, b) that raises a
\* database-layer error on every attempt is invoked exactly m+1 times, with a
\* sleep of d*b^(k-1) before the k-th retry, and the error is then re-raised;
\* if attempt k <= m+1 succeeds its result is returned after exactly k
\* invocations, with k-1 sleeps and nothing after.
Thm_C5 ==
    LET k == Len(retry.outcomes)
        m == retry.max_retries
        d == retry.initial_delay
        b == retry.backoff_factor
    IN /\ k <= m + 1
       /\ Len(retry.sleeps) <= m
       /\ retry.pc = "done" =>
            /\ AllSqlErrors(retry.outcomes, k) =>
                 /\ k = m + 1
                 /\ retry.sleeps = Backoff(d, b, m)
                 /\ retry.result = [kind |-> "raise", exc |-> "SQLAlchemyError"]
            /\ retry.result.kind = "return" =>
                 /\ k >= 1
                 /\ retry.outcomes[k] = None
                 /\ AllSqlErrors(retry.outcomes, k - 1)
                 /\ retry.sleeps = Backoff(d, b, k - 1)

Witness_C5 ==
    /\ op = "retry"
    /\ pc = "done"
    /\ retry.max_retries = 2
    /\ retry.backoff_factor = 2
    /\ retry.outcomes = <<"SQLAlchemyError", "SQLAlchemyError", "SQLAlchemyError">>
    /\ retry.sleeps = <<retry.initial_delay, 2 * retry.initial_delay>>
    /\ retry.result.kind = "raise"

\* C6 (as claimed): POST /v1/query answers 400 whenever validate_query_input
\* rejects a request that passed the request schema.
Cex_C6 ==
    (op = "query" /\ pc = "done" /\ caught = "validators.ValidationError")
        => status = 400

\* C7 (as claimed): for a request that fails validation, no call to the
\* vector-search service, the LLM service or the database is made before the
\* failure is reported, in the handler as well as in process_query.
Cex_C7 ==
    (\/ op = "query" /\ pc = "done" /\ caught = "validators.ValidationError"
     \/ InProcessQuery /\ result.kind = "raise" /\ result.exc = "validators.ValidationError")
        => calls = <<>>

HandledKinds ==
    {"QdrantUnavailableError", "GeminiAPIError", "DatabaseError",
     "exceptions.ValidationError", "validators.ValidationError"}

PipelineRaised(cls) == result.kind = "raise" /\ IsInstance(result.exc, cls)

\* C8: POST /v1/query answers 503 exactly when the pipeline raises
\* QdrantUnavailableError, 502 exactly when it raises GeminiAPIError, and 500
\* for any exception that is none of the handled kinds.
Thm_C8 ==
    (op = "query" /\ pc = "done") =>
        /\ status = 503 <=> PipelineRaised("QdrantUnavailableError")
        /\ status = 502 <=> PipelineRaised("GeminiAPIError")
        /\ (caught # None /\ caught \notin HandledKinds) => status = 500

Witness_C8 ==
    /\ op = "query"
    /\ pc = "done"
    /\ status = 503
    /\ PipelineRaised("QdrantUnavailableError")

SaveEnded == retry.func = "save_query" /\ retry.pc = "done" /\ pc # "pq_save_wait"

Failed(h) ==
    (IF h.qdrant_healthy THEN 0 ELSE 1) + (IF h.gemini_healthy THEN 0 ELSE 1)
        + (IF h.postgres_healthy THEN 0 ELSE 1)

\* C10 (as claimed): GET /v1/health reports "healthy" iff all three checks
\* succeed, "unhealthy" iff all three fail, "degraded" iff one or two fail.
Cex_C10 ==
    (op = "health" /\ pc = "done") =>
        /\ health.status = "healthy" <=> Failed(health) = 0
        /\ health.status = "unhealthy" <=> Failed(health) = 3
        /\ health.status = "degraded" <=> Failed(health) \in {1, 2}

\* ---- admin log endpoints
\* the dependency has run and let the request through to the endpoint
PastAdminGate ==
    \/ logs_req.pc = "endpoint"
    \/ logs_req.pc = "done" /\ logs_req.status \in {200, 422, 500}
\* the dependency has answered 401 and nothing was read
RejectedUnread ==
    /\ logs_req.pc = "done"
    /\ logs_req.status = 401
    /\ logs_req.detail = "Unauthorized: Invalid admin token"
    /\ logs_req.reads = 0

Cex_C12 ==
    (/\ pair # <<>>
     /\ pair[1].pc = "done" /\ pair[2].pc = "done"
     /\ pair[1].status = pair[2].status
     /\ pair[1].text # pair[2].text) =>
        /\ pair[1].body = pair[2].body
        /\ \A i \in 1..2 : pair[i].text \notin Range(pair[i].body)

\* ---- concurrent first requests
InInitServices(i) ==
    procs[i].pc \in {"init_qdrant", "await_qdrant_init", "init_gemini", "await_gemini_init"}
BuiltTwice ==
    \/ built.qdrant > 1 \/ built.qdrant_init > 1
    \/ built.gemini > 1 \/ built.gemini_init > 1

MaxSessions == NumTasks * (MaxServed + 1)
\* no AsyncSession is held or used by a request other than the one it was made for
NeverShared ==
    /\ \A k \in 1..Len(sessions) : sessions[k].users \subseteq {sessions[k].owner}
    /\ \A i, j \in Tasks :
          (i # j /\ procs[i].pc # "idle" /\ procs[j].pc # "idle") =>
              procs[i].session # procs[j].session
SessionOpen(k) == k <= Len(sessions) /\ sessions[k].state = "open"
SessionClosed(k) == k <= Len(sessions) /\ sessions[k].state = "closed"

\* C14: every session get_session leases to a request is eventually closed when
\* the request ends, whether the handler returned or raised, and no session is
\* shared between two requests.
Thm_C14 ==
    /\ []NeverShared
    /\ \A k \in 1..MaxSessions : SessionOpen(k) ~> SessionClosed(k)

\* one request has ended by raising and its session is closed while another
\* request still holds its own open session
Witness_C14 ==
    \E i, j \in Tasks :
        /\ i # j
        /\ procs[i].pc = "idle" /\ procs[i].outcome = "raise" /\ procs[i].served > 0
        /\ SessionClosed(procs[i].session)
        /\ procs[j].pc = "exit" /\ procs[j].outcome = "return"
        /\ SessionOpen(procs[j].session)

\* ---- chat_queries is append-only
\* every row there before the step is there after it, at its place, unchanged
RowsKept ==
    /\ Len(table') >= Len(table)
    /\ \A i \in 1..Len(table) : table'[i] = table[i]

\* C15: persisted interactions are append-only: whatever service operation runs
\* (save_query, log_query_async, get_query_logs, get_analytics, the analytics
\* reads), every row persisted earlier still exists with unchanged field values.
Thm_C15 == [][RowsKept]_vars

\* a save_query that failed and rolled back while an earlier row was in the table
Witness_C15 ==
    /\ Len(table) >= 1
    /\ table[1].id = 1
    /\ svc_out.fn = "save_query"
    /\ svc_out.raised = "DatabaseError"

\* ---- pagination of get_query_logs
\* the rows the filters let through: a given session id must match exactly, a
\* given number of days bounds the age (an empty session id, like none, filters
\* nothing)
MatchingRows(a, now) ==
    { row \in Range(table) :
        /\ a.session_id \in {None, ""} \/ row.session_id = a.session_id
        /\ a.days_back = NoDays \/ row.timestamp >= now - a.days_back }
\* items are the rows at positions offset+1.. of a timestamp-descending order of M
IsPageOf(items, M, offset) ==
    /\ \A j \in 1..Len(items) : items[j] \in M
    /\ \A i, j \in 1..Len(items) : i # j => items[i] # items[j]
    /\ \A i, j \in 1..Len(items) : i < j => items[i].timestamp >= items[j].timestamp
    /\ \A j \in 1..Len(items) :
          /\ Cardinality({ row \in M : row.timestamp > items[j].timestamp }) <= offset + j - 1
          /\ Cardinality({ row \in M : row.timestamp >= items[j].timestamp }) >= offset + j
PageOk(out) ==
    LET M == MatchingRows(out.args, out.at)
        N == Cardinality(M)
    IN /\ out.total = N
       /\ Len(out.items) = Min(out.args.limit, Max(N - out.args.offset, 0))
       /\ IsPageOf(out.items, M, out.args.offset)
       /\ out.args.offset = N => out.items = <<>>

WeightedScore(chunks, response_len) ==
    Frac(7 * SumSeq(chunks) + 15 * Len(chunks) * Min(response_len, 200),
         10000 * Len(chunks))
Clamp(lo, hi, x) == IF ~FLe(lo, x) THEN lo ELSE IF ~FLe(x, hi) THEN hi ELSE x

\* C16: for a non-empty chunk list with similarity scores in [0, 1] and any
\* response text, _calculate_confidence_score returns
\* clamp(0.3, 1.0, 0.7*avg_similarity + 0.3*min(len(response_text)/200, 1.0)),
\* a value in [0.3, 1.0].
Thm_C16 ==
    (score # <<>> /\ score.pc = "done" /\ Len(score.chunks) >= 1) =>
        /\ score.out = Clamp(Frac(3, 10), Frac(1, 1),
                             WeightedScore(score.chunks, score.response_len))
        /\ FLe(Frac(3, 10), score.out)
        /\ FLe(score.out, Frac(1, 1))

\* two low-similarity chunks and a short response: the weighted sum is 0.255
\* and the clamp lifts it to 0.3
Witness_C16 ==
    /\ score # <<>>
    /\ score.pc = "done"
    /\ score.chunks = <<0, 300>>
    /\ score.response_len = 100
    /\ score.out = Frac(3, 10)

\* ---- the metrics collector
AllEmpty(all) ==
    /\ DOMAIN all.counters = {}
    /\ DOMAIN all.gauges = {}
    /\ DOMAIN all.histograms = {}
    /\ DOMAIN all.summaries = {}

\* C18: after any sequence of counter, gauge, histogram and summary operations,
\* once reset_metrics has been called every get_all_metrics call before the next
\* recording operation returns empty maps for all four series kinds.
Thm_C18 ==
    (met_out.fn = "get_all_metrics" /\ quiet) =>
        /\ ~met_out.raised
        /\ AllEmpty(met_out.value)

\* recordings were made, then reset_metrics, then get_all_metrics
Witness_C18 ==
    /\ met_out.fn = "get_all_metrics"
    /\ quiet
    /\ recorded >= 2

\* v is the element at 0-based index idx of the ascending order of values
IsAtRank(values, v, idx) ==
    /\ \E i \in 1..Len(values) : values[i] = v
    /\ Cardinality({ i \in 1..Len(values) : values[i] < v }) <= idx
    /\ Cardinality({ i \in 1..Len(values) : values[i] <= v }) > idx
OneToTen == [i \in 1..10 |-> i]

\* C20: for a summary series with n >= 1 observed values get_summary_stats
\* reports p50, p95 and p99 as the element at index floor(p/100 * n) of the
\* ascending-sorted values, with no interpolation; p50 of 1..10 is 6.
Thm_C20 ==
    /\ (met_out.fn = "get_summary_stats" /\ Has(collector.summaries, met_out.key)) =>
          LET values == collector.summaries[met_out.key]
              n == Len(values)
          IN /\ n >= 1
             /\ IsAtRank(values, met_out.value.p50, (50 * n) \div 100)
             /\ IsAtRank(values, met_out.value.p95, (95 * n) \div 100)
             /\ IsAtRank(values, met_out.value.p99, (99 * n) \div 100)
    /\ SummaryStats([k \in {<<"q", "none">>} |-> OneToTen], <<"q">>, None).p50 = 6

\* three observations 3, 1, 2 of one series: p50 is the value at index 1 of
\* 1, 2, 3 and p95, p99 the value at index 2
Witness_C20 ==
    /\ met_out.fn = "get_summary_stats"
    /\ Has(collector.summaries, met_out.key)
    /\ collector.summaries[met_out.key] = <<3, 1, 2>>
    /\ met_out.value.p50 = 2
    /\ met_out.value.p95 = 3
    /\ met_out.value.p99 = 3

\* ---- correlation ids
Answered == http.pc = "sent" /\ http.status # 0

\* C19: every HTTP response of the application, error responses included,
\* carries an X-Correlation-ID header equal to the inbound X-Correlation-ID when
\* one was sent and to a freshly generated id otherwise, and the logging
\* middleware records that same id on receipt and on completion.
Thm_C19 ==
    Answered =>
        /\ http.header # None
        /\ IF http.inbound # None THEN http.header = http.inbound
           ELSE \E k \in 1..http.uuids : http.header = Uuid(k)
        /\ http.log_received = http.header
        /\ http.log_completed = http.header

\* an error response to a request that sent no X-Correlation-ID
Witness_C19 ==
    /\ Answered
    /\ http.status = 503
    /\ http.inbound = None
    /\ http.header = Uuid(1)
    /\ http.log_received = Uuid(1)

\* ---- the metrics overview
\* the keys of one histogram name among the entries get_all_metrics returned
KeysOf(histograms, name) == { k \in DOMAIN histograms : ParsedName(k) = name }
RECURSIVE SumOfSums(_, _)
SumOfSums(histograms, K) ==
    IF K = {} THEN 0
    ELSE LET k == CHOOSE x \in K : TRUE
         IN histograms[k].sum + SumOfSums(histograms, K \ {k})
RECURSIVE SumOfCounts(_, _)
SumOfCounts(histograms, K) ==
    IF K = {} THEN 0
    ELSE LET k == CHOOSE x \in K : TRUE
         IN histograms[k].count + SumOfCounts(histograms, K \ {k})
\* avg is the mean of the durations recorded under the name (0 when none was)
IsMeanOf(avg, histograms, name) ==
    LET K == KeysOf(histograms, name)
        n == SumOfCounts(histograms, K)
    IN IF n = 0 THEN avg[1] = 0
       ELSE avg[1] * n = SumOfSums(histograms, K) * avg[2]
OverviewGiven == met_out.fn = "get_metrics_overview" /\ ~met_out.raised
ReachedGeneration ==
    KeysOf(met_out.value.details.histograms, GENERATION_DURATION_HISTOGRAM) # {}

\* C21: once a query has reached generation, the overview shows for each of
\* the three standard histograms the average of the durations process_query
\* recorded for it.
Cex_C21 ==
    (OverviewGiven /\ ReachedGeneration) =>
        /\ IsMeanOf(met_out.value.query_duration_avg,
                    met_out.value.details.histograms, QUERY_DURATION_HISTOGRAM)
        /\ IsMeanOf(met_out.value.retrieval_duration_avg,
                    met_out.value.details.histograms, RETRIEVAL_DURATION_HISTOGRAM)
        /\ IsMeanOf(met_out.value.generation_duration_avg,
                    met_out.value.details.histograms, GENERATION_DURATION_HISTOGRAM)

\* ---- the three decorators of process_query
QueryTotal == Get(collector.counters, MetricKey(QUERY_TOTAL_COUNTER, None), 0)
QueryErrors == Get(collector.counters, MetricKey(QUERY_ERROR_COUNTER, None), 0)
QueryObservations ==
    Len(Get(collector.histograms, MetricKey(QUERY_DURATION_HISTOGRAM, None), <<>>))
RECURSIVE CallsCounted(_)
CallsCounted(n) ==
    IF n = 0 THEN 0
    ELSE runs[n].done + (IF runs[n].pc # "idle" THEN runs[n].counted ELSE 0)
         + CallsCounted(n - 1)
OneCallAccounted(r) ==
    /\ r.counted <= 1
    /\ r.body # "none" => r.counted_at_body = 1
    /\ r.errors = (IF r.body_exc # None /\ r.pc \in {"measure", "idle"} THEN 1 ELSE 0)
    /\ r.observed = (IF r.ended # "none" THEN 1 ELSE 0)
    /\ r.ended # "none" =>
          /\ r.counted = 1
          /\ r.propagated = r.body_exc
          /\ r.ended = (IF r.body_exc # None THEN "raised" ELSE "returned")

\* C26: every invocation of the decorated process_query increments the call
\* counter exactly once before the body starts, increments the error counter
\* exactly once iff the body raises, whose exception then reaches the caller,
\* and records exactly one duration observation when it ends, returned or
\* raised.
Thm_C26 ==
    /\ \A i \in Tasks : OneCallAccounted(runs[i])
    /\ QueryTotal = CallsCounted(NumTasks)
Witness_C26 ==
    \E i, j \in Tasks :
        /\ runs[i].ended = "raised" /\ runs[i].errors = 1 /\ runs[i].observed = 1
        /\ runs[i].propagated = "GeminiAPIError"
        /\ runs[j].ended = "returned" /\ runs[j].errors = 0 /\ runs[j].observed = 1

\* C27: with invocations interleaving at their awaits and no reset, the error
\* counter and the number of duration observations never exceed the call
\* counter, and with no invocation in flight the observations equal it.
Thm_C27 ==
    /\ QueryErrors <= QueryTotal
    /\ QueryObservations <= QueryTotal
    /\ (\A i \in Tasks : runs[i].pc = "idle") => QueryObservations = QueryTotal
Witness_C27 ==
    \E i, j \in Tasks :
        /\ runs[i].overlapped /\ runs[i].ended = "raised"
        /\ runs[j].pc = "save"
        /\ QueryTotal = 2
        /\ QueryErrors = 1
        /\ QueryObservations = 1

\* ---- the load-test CLI
\* C22: load_test.py exits with status 1 when --users or --duration is not
\* positive and when the run is interrupted, and exits 0 only after the run
\* completed and the results table was printed.
Cex_C22 ==
    cli.pc = "exited" =>
        /\ (cli.users <= 0 \/ cli.duration <= 0 \/ cli.interrupted) => cli.exit = 1
        /\ cli.exit = 0 => (cli.printed = "results" /\ ~cli.interrupted)

\* ---- the migration and seeding scripts
\* C23: started without DATABASE_URL in the environment, the migration and the
\* seeding script end with a propagated failure and a non-zero exit status,
\* never as a normal run.
Cex_C23 ==
    (script.pc = "exited" /\ script.url = None) =>
        (script.exit # 0 /\ script.logged = "failed")

\* ---- singletons whose init() failed
\* C24: no request calls generate_embedding or search_similar_chunks on a
\* module-level singleton whose init() has not completed successfully.
Cex_C24 ==
    op = "query" =>
        /\ "generate_embedding" \in Range(stages) => gemini_service = "Ready"
        /\ "search_similar_chunks" \in Range(stages) => qdrant_service = "Ready"

\* init_services has ended with the exception of one service's init()
InitRaised(exc) ==
    /\ op \in {"boot", "query"}
    /\ pc = "done"
    /\ stages = <<>>
    /\ caught = exc

\* C25: when a service's init() raises inside init_services, the singleton is
\* left unset, so that the next init_services call initialises it again.
Cex_C25 ==
    /\ InitRaised("QdrantUnavailableError") => qdrant_service = None
    /\ InitRaised("GeminiAPIError") => gemini_service = None

\* ---- no row for a failed pipeline
\* process_query has ended with the error of the embedding, the search or the
\* generation call
PipelineFailed ==
    /\ op \in {"query", "process_query"}
    /\ result.kind = "raise"
    /\ result.exc \in {"GeminiAPIError", "QdrantUnavailableError"}

\* C28: when the embedding, the vector search or the answer generation fails in
\* process_query, save_query is not invoked for that request and nothing is
\* sent to the database.
Thm_C28 ==
    PipelineFailed =>
        /\ "save_query" \notin Range(stages)
        /\ retry = NoRetry
        /\ \A k \in 1..Len(calls) : calls[k] \notin {"db.commit", "db.refresh", "db.rollback"}
Witness_C28 ==
    /\ PipelineFailed
    /\ op = "query"
    /\ pc = "done"
    /\ status = 502
    /\ "generate_response_for_query" \in Range(stages)

\* ---- get_analytics
RECURSIVE ScoreSum(_)
ScoreSum(queries) ==
    IF queries = <<>> THEN 0 ELSE Head(queries).confidence_score + ScoreSum(Tail(queries))

\* C29: get_analytics(days_back) returns as avg_confidence the mean of the
\* confidence_score of every row in the window, rows scored 0.0 included.
Cex_C29 ==
    analytics # <<>> =>
        LET queries == InWindow(analytics.rows, analytics.now - analytics.days_back)
            avg == analytics.out.avg_confidence
        IN queries # <<>> => avg[1] * Len(queries) = ScoreSum(queries) * avg[2]

\* ---- the confidence score of no chunks
\* C30: _calculate_confidence_score called with an empty chunk list returns
\* the minimum confidence score 0.3.
Cex_C30 ==
    (score # <<>> /\ score.pc = "done" /\ Len(score.chunks) = 0) =>
        score.out = Frac(MIN_CONFIDENCE_SCORE, 1000)

====
